---------------------------- MODULE Spec2Model ----------------------------
(***************************************************************************)
(* Travel emissions of football teams: the route resolver                  *)
(* (get_emissions_and_time), the two batch programs that build the         *)
(* per-pair baseline and alternative columns (Calculate_emissions.py and   *)
(* scripts/Calculate_emissions.py) and the scenario generator              *)
(* (scripts/utils_scenarios.py).                                           *)
(*                                                                         *)
(* Numbers.  The programs compute on floats and halve with "/ 2".  The     *)
(* model draws every stored value from the even integers, on which         *)
(* Half(x) = x \div 2 is exact, as the float division is.                   *)
(***************************************************************************)
EXTENDS Integers, Sequences, FiniteSets, TLC

VARIABLES
  prog,                 \* which entry point runs: "resolve", "root", "scripts", "scenarios",
                        \* "car", "plane", "trip_stats", "train"
  emission_plane_data,  \* flight_emissions.csv, a sequence of rows
  emission_train_data,  \* train_emissions.csv
  emission_car_data,    \* car_emissions.csv
  reconstructed_data,   \* the melted travel matrix: rows (Visiting team, Host team, Transport)
  pc,                   \* position of the running program
  row_idx,              \* number of rows the current loop has consumed
  exc,                  \* the exception that ended the program, "none" while it runs
  call,                 \* resolve: the last call made
  ret,                  \* resolve: what it returned
  root,                 \* locals of main in Calculate_emissions.py
  scripts,              \* locals of main in scripts/Calculate_emissions.py
  final_df,             \* the data frame main writes to total_emmissions.csv
  df,                   \* build_scenarios: its input frame
  scenario_time_limits, \* build_scenarios: the thresholds, in key order
  entries,              \* build_scenarios: the rows generated so far
  response,             \* services: what the Directions request of the call meets
  flight_distance,      \* plane service: the flight distance of the call, km
  route,                \* services: the outcome of the call
  week_trains,          \* train service: the journeys found, each a list of sections
  routing,              \* train service: the aggregations run so far, in order
  fastest_train,        \* train service: position of the chosen journey, 0 before
  stats,                \* train service: the outcome of the last _trip_stats
  airport_cache,        \* plane service: self.airport_cache, rounded coordinates to airport
  requested,            \* services: the requests sent so far, in order
  all_routes,           \* process_all_routes: its list routes, the records so far
  sncf,                 \* train service: locals of _get_sncf_journeys
  stadium_df            \* process_all_routes: the teams of stadiums.csv, in file order

vars == <<prog, emission_plane_data, emission_train_data, emission_car_data,
          reconstructed_data, pc, row_idx, exc, call, ret, root, scripts,
          final_df, df, scenario_time_limits, entries,
          response, flight_distance, route, week_trains, routing, fastest_train, stats,
          airport_cache, requested, all_routes, sncf, stadium_df>>

\* the variables of the transport services
lookups == <<airport_cache, requested, all_routes, sncf, stadium_df>>

services ==
  <<response, flight_distance, route, week_trains, routing, fastest_train, stats, lookups>>

---------------------------------------------------------------------------
(* Bounds and program constants *)

\* time levels of a stored route: 0 .. MaxTimeSteps units of TimeUnit
MaxTimeSteps == 5
\* time levels of a row of the scenario frame
MaxScenarioTimeSteps == 3
\* length levels of a stored route (emissions and distance grow with it)
MaxLoad == 1
\* rows of a mode table in the resolver's own runs
MaxTableRows == 2
\* rows of the travel matrix in a batch run
MaxRows == 1

time_scenario2 == 3
time_scenario3 == 6

\* the grain of the stored travel times: half the shift 2*3600*3 of the
\* 3-hour variant, so that a duration can fall on either threshold or
\* strictly between the two
TimeUnit == 3600 * time_scenario2

Teams == {"PSG", "OM"}

KnownModes == {"avion", "bus", "train"}

\* the cells of the travel matrix: the three modes, a capitalised spelling,
\* the two mixed trips and a cell that names no mode
Transports ==
  {"avion", "bus", "Bus", "train",
   "Aller en bus\nRetour en avion", "Aller en train\nRetour en bus", "-"}

\* str.lower on the cells above
Lower(s) ==
  CASE s = "Bus" -> "bus"
    [] s = "Aller en bus\nRetour en avion" -> "aller en bus\nretour en avion"
    [] s = "Aller en train\nRetour en bus" -> "aller en train\nretour en bus"
    [] OTHER -> s

\* x / 2 on the even values of the model
Half(x) == x \div 2

Times == {k * TimeUnit : k \in 0..MaxTimeSteps}

\* the measurements of one stored route
RouteValues ==
  {[emissions_kg_co2 |-> 2 * k, travel_time_seconds |-> t, distance_km |-> 4 * k] :
     k \in 0..MaxLoad, t \in Times}

RouteRow(dep, arr, v) ==
  [departure |-> dep, arrival |-> arr,
   emissions_kg_co2 |-> v.emissions_kg_co2,
   travel_time_seconds |-> v.travel_time_seconds,
   distance_km |-> v.distance_km]

\* sequences over S of length at most n
SeqsUpTo(S, n) == UNION {[1..m -> S] : m \in 0..n}

---------------------------------------------------------------------------
(* get_emissions_and_time *)

\* dataset[(dataset["departure"] == dep) & (dataset["arrival"] == arr)]
Subset(dataset, dep, arr) ==
  SelectSeq(dataset, LAMBDA r : r.departure = dep /\ r.arrival = arr)

\* the match statement: the table of a known mode
Dataset(transport_type) ==
  CASE transport_type = "avion" -> emission_plane_data
    [] transport_type = "bus" -> emission_car_data
    [] transport_type = "train" -> emission_train_data

\* A call's outcome: exc is "none" for a normal return, and then the three
\* returned values are meaningful; read is the set of mode tables the call
\* consulted.
Returned(e, t, d, tables) ==
  [exc |-> "none", emission_in_kg |-> e, time_in_sec |-> t, distance_km |-> d,
   read |-> tables]

Raised(name, tables) ==
  [exc |-> name, emission_in_kg |-> 0, time_in_sec |-> 0, distance_km |-> 0,
   read |-> tables]

\* A faulty resolver: the reverse direction is never tried, a pair stored
\* only as (hosting, visiting) counts as unknown.
get_emissions_and_time_no_fallback(visiting_team_name, hosting_team_name, transport_type) ==
  IF transport_type \notin KnownModes
  THEN Returned(0, 0, 0, {})
  ELSE
    LET subset == Subset(Dataset(transport_type), visiting_team_name, hosting_team_name)
    IN  IF subset = <<>>
        THEN Returned(0, 0, 0, {transport_type})
        ELSE Returned(subset[1].emissions_kg_co2, subset[1].travel_time_seconds,
                      subset[1].distance_km, {transport_type})

\* A faulty resolver: the default case of the match falls back on the car
\* table instead of returning.
get_emissions_and_time_default_car(visiting_team_name, hosting_team_name, transport_type) ==
  LET dataset == IF transport_type \in KnownModes THEN Dataset(transport_type)
                 ELSE emission_car_data
      subset == Subset(dataset, visiting_team_name, hosting_team_name)
      subset2 == Subset(dataset, hosting_team_name, visiting_team_name)
  IN  IF subset = <<>>
      THEN IF subset2 = <<>>
           THEN Raised("IndexError", {"bus"})
           ELSE Returned(subset2[1].emissions_kg_co2, subset2[1].travel_time_seconds,
                         subset2[1].distance_km, {"bus"})
      ELSE Returned(subset[1].emissions_kg_co2, subset[1].travel_time_seconds,
                    subset[1].distance_km, {"bus"})

\* Calculate_emissions.py: returns (emissions, time, distance)
get_emissions_and_time(visiting_team_name, hosting_team_name, transport_type) ==
  IF transport_type \notin KnownModes
  THEN Returned(0, 0, 0, {})
  ELSE
    LET dataset == Dataset(transport_type)
        subset == Subset(dataset, visiting_team_name, hosting_team_name)
        subset2 == Subset(dataset, hosting_team_name, visiting_team_name)
    IN  IF subset = <<>>
        THEN IF subset2 = <<>>
             \* subset2[...].iloc[0] on an empty selection
             THEN Raised("IndexError", {transport_type})
             ELSE Returned(subset2[1].emissions_kg_co2,
                           subset2[1].travel_time_seconds,
                           subset2[1].distance_km, {transport_type})
        ELSE Returned(subset[1].emissions_kg_co2,
                      subset[1].travel_time_seconds,
                      subset[1].distance_km, {transport_type})

\* scripts/Calculate_emissions.py: returns (emissions, time) only; the
\* distance_km field of the outcome is unused and left 0
scripts_get_emissions_and_time(visiting_team_name, hosting_team_name, transport_type) ==
  IF transport_type \notin KnownModes
  THEN Returned(0, 0, 0, {})
  ELSE
    LET dataset == Dataset(transport_type)
        subset == Subset(dataset, visiting_team_name, hosting_team_name)
        subset2 == Subset(dataset, hosting_team_name, visiting_team_name)
    IN  IF subset = <<>>
        THEN IF subset2 = <<>>
             THEN Raised("IndexError", {transport_type})
             ELSE Returned(subset2[1].emissions_kg_co2,
                           subset2[1].travel_time_seconds, 0, {transport_type})
        ELSE Returned(subset[1].emissions_kg_co2,
                      subset[1].travel_time_seconds, 0, {transport_type})

---------------------------------------------------------------------------
(* main of Calculate_emissions.py *)

RootLocals0 ==
  [list_visiting_team |-> <<>>, list_hosting_team |-> <<>>, list_transport |-> <<>>,
   list_id |-> <<>>, list_aller_retour |-> <<>>, list_emissions |-> <<>>,
   list_time |-> <<>>, list_distance |-> <<>>, i |-> 1,
   list_alternative_emissions |-> <<>>, list_alternative_time |-> <<>>,
   list_alternative_distance |-> <<>>, list_alternative_emissions_wo_bus |-> <<>>,
   list_alternative2_emissions |-> <<>>, list_alternative2_time |-> <<>>,
   list_alternative2_distance |-> <<>>, list_alternative2_emissions_wo_bus |-> <<>>,
   list_alternative3_emissions |-> <<>>, list_alternative3_time |-> <<>>,
   list_alternative3_distance |-> <<>>, list_alternative3_emissions_wo_bus |-> <<>>]

\* the outcome of one loop iteration: the locals after it, and the exception
\* that interrupted it ("none" when it ran to its end)
Step(locals, e) == [locals |-> locals, exc |-> e]

\* the two leg rows (aller, retour) of one travel row
LegRows(R, id, transports, emissions, times, distances) ==
  [R EXCEPT !.list_id = @ \o <<id, id>>,
            !.list_transport = @ \o transports,
            !.list_aller_retour = @ \o <<"aller", "retour">>,
            !.list_emissions = @ \o emissions,
            !.list_time = @ \o times,
            !.list_distance = @ \o distances,
            !.i = @ + 1]

\* line 135: whether the empty bus trip is added to a single-mode row
AddsEmptyBus(transport, visiting_team, hosting_team) ==
  transport # "bus" /\ visiting_team # hosting_team

\* lines 81-153: one iteration of the first loop
RootBaselineRow(R, row) ==
  LET visiting_team == row["Visiting team"]
      hosting_team == row["Host team"]
      transport == row["Transport"]
      R1 == [R EXCEPT !.list_visiting_team = @ \o <<visiting_team, visiting_team>>,
                      !.list_hosting_team = @ \o <<hosting_team, hosting_team>>]
  IN  IF transport = "Aller en bus\nRetour en avion"
      THEN LET aller == get_emissions_and_time(visiting_team, hosting_team, "bus")
               retour == get_emissions_and_time(visiting_team, hosting_team, "avion")
           IN  IF aller.exc # "none" THEN Step(R1, aller.exc)
               ELSE IF retour.exc # "none" THEN Step(R1, retour.exc)
               ELSE Step(LegRows(R1, R.i, <<"bus", "avion">>,
                           <<Half(aller.emission_in_kg),
                             Half(retour.emission_in_kg + aller.emission_in_kg)>>,
                           <<Half(aller.time_in_sec), Half(retour.time_in_sec)>>,
                           <<Half(aller.distance_km), Half(retour.distance_km)>>),
                         "none")
      ELSE IF transport = "Aller en train\nRetour en bus"
      THEN LET aller == get_emissions_and_time(visiting_team, hosting_team, "train")
               retour == get_emissions_and_time(visiting_team, hosting_team, "bus")
           IN  IF aller.exc # "none" THEN Step(R1, aller.exc)
               ELSE IF retour.exc # "none" THEN Step(R1, retour.exc)
               ELSE Step(LegRows(R1, R.i, <<"train", "bus">>,
                           <<Half(aller.emission_in_kg + retour.emission_in_kg),
                             Half(retour.emission_in_kg)>>,
                           <<Half(aller.time_in_sec), Half(retour.time_in_sec)>>,
                           <<Half(aller.distance_km), Half(retour.distance_km)>>),
                         "none")
      ELSE LET got == get_emissions_and_time(visiting_team, hosting_team, Lower(transport))
               add == AddsEmptyBus(transport, visiting_team, hosting_team)
               bus1 == get_emissions_and_time(visiting_team, hosting_team, Lower("bus"))
               emission == IF add THEN got.emission_in_kg + bus1.emission_in_kg
                           ELSE got.emission_in_kg
           IN  IF got.exc # "none" THEN Step(R1, got.exc)
               ELSE IF add /\ bus1.exc # "none" THEN Step(R1, bus1.exc)
               ELSE Step(LegRows(R1, R.i, <<transport, transport>>,
                           <<Half(emission), Half(emission)>>,
                           <<Half(got.time_in_sec), Half(got.time_in_sec)>>,
                           <<Half(got.distance_km), Half(got.distance_km)>>),
                         "none")

\* One option of the second loop, as the four values a leg row receives.
Option(emissions, emissions_wo_bus, time, distance) ==
  [emissions |-> emissions, emissions_wo_bus |-> emissions_wo_bus,
   time |-> time, distance |-> distance]

\* the bus alone (lines 194-197)
BusOption(bus) ==
  Option(Half(bus.emission_in_kg), Half(bus.emission_in_kg),
         Half(bus.time_in_sec), Half(bus.distance_km))

\* the train and the empty bus (lines 263-267)
TrainOption(train, bus) ==
  Option(Half(train.emission_in_kg + bus.emission_in_kg), Half(train.emission_in_kg),
         Half(train.time_in_sec), Half(train.distance_km))

\* the plane and the empty bus (lines 222-225)
PlaneOption(plane, bus) ==
  Option(Half(plane.emission_in_kg + bus.emission_in_kg), Half(plane.emission_in_kg),
         Half(plane.time_in_sec), Half(plane.distance_km))

ZeroOption == Option(0, 0, 0, 0)

\* what the three variants report for one pair
Variants(a1, a2, a3) == [alternative |-> a1, alternative2 |-> a2, alternative3 |-> a3]

\* A faulty bus branch: both tests let a tie keep the bus.
BusBranch_ties_keep_bus(plane, train, bus) ==
  IF bus.time_in_sec - 2 * 3600 * time_scenario2 <= plane.time_in_sec
  THEN Variants(BusOption(bus), BusOption(bus), BusOption(bus))
  ELSE IF bus.time_in_sec - 2 * 3600 * time_scenario3 <= plane.time_in_sec
  THEN Variants(BusOption(bus), PlaneOption(plane, bus), BusOption(bus))
  ELSE Variants(BusOption(bus), PlaneOption(plane, bus), PlaneOption(plane, bus))

\* A faulty bus branch: the 6-hour variant follows the 3-hour test.
BusBranch_6h_follows_3h(plane, train, bus) ==
  IF bus.time_in_sec - 2 * 3600 * time_scenario2 < plane.time_in_sec
  THEN Variants(BusOption(bus), BusOption(bus), BusOption(bus))
  ELSE Variants(BusOption(bus), PlaneOption(plane, bus), PlaneOption(plane, bus))

\* lines 193-256: the bus is strictly faster than the train
BusBranch(plane, train, bus) ==
  IF bus.time_in_sec - 2 * 3600 * time_scenario2 < plane.time_in_sec
  THEN Variants(BusOption(bus), BusOption(bus), BusOption(bus))
  ELSE IF bus.time_in_sec - 2 * 3600 * time_scenario3 < plane.time_in_sec
  THEN Variants(BusOption(bus), PlaneOption(plane, bus), BusOption(bus))
  ELSE Variants(BusOption(bus), PlaneOption(plane, bus), PlaneOption(plane, bus))

\* A faulty train branch: between the two thresholds the 6-hour variant
\* reports the plane as the 3-hour variant does.
TrainBranch_plane_under_6h(plane, train, bus) ==
  IF train.time_in_sec - 2 * 3600 * time_scenario2 < plane.time_in_sec
  THEN Variants(TrainOption(train, bus), TrainOption(train, bus), TrainOption(train, bus))
  ELSE Variants(TrainOption(train, bus), PlaneOption(plane, bus), PlaneOption(plane, bus))

\* lines 262-327: otherwise the train, with the empty bus
TrainBranch(plane, train, bus) ==
  IF train.time_in_sec - 2 * 3600 * time_scenario2 < plane.time_in_sec
  THEN Variants(TrainOption(train, bus), TrainOption(train, bus), TrainOption(train, bus))
  ELSE IF train.time_in_sec - 2 * 3600 * time_scenario3 < plane.time_in_sec
  THEN Variants(TrainOption(train, bus), PlaneOption(plane, bus), TrainOption(train, bus))
  ELSE Variants(TrainOption(train, bus), PlaneOption(plane, bus), PlaneOption(plane, bus))

\* A faulty choice: equal durations go to the bus.
SelectAlternatives_tie_to_bus(plane, train, bus) ==
  IF bus.time_in_sec <= train.time_in_sec
  THEN BusBranch(plane, train, bus)
  ELSE TrainBranch(plane, train, bus)

\* line 193: the choice between the two
SelectAlternatives(plane, train, bus) ==
  IF bus.time_in_sec < train.time_in_sec
  THEN BusBranch(plane, train, bus)
  ELSE TrainBranch(plane, train, bus)

\* A faulty append: the duration of the 6-hour variant is written once.
AppendVariants_one_time_entry(R, v) ==
  LET twice(x) == <<x, x>>
  IN [R EXCEPT
        !.list_alternative_emissions = @ \o twice(v.alternative.emissions),
        !.list_alternative_emissions_wo_bus = @ \o twice(v.alternative.emissions_wo_bus),
        !.list_alternative_time = @ \o twice(v.alternative.time),
        !.list_alternative_distance = @ \o twice(v.alternative.distance),
        !.list_alternative2_emissions = @ \o twice(v.alternative2.emissions),
        !.list_alternative2_emissions_wo_bus = @ \o twice(v.alternative2.emissions_wo_bus),
        !.list_alternative2_time = @ \o twice(v.alternative2.time),
        !.list_alternative2_distance = @ \o twice(v.alternative2.distance),
        !.list_alternative3_emissions = @ \o twice(v.alternative3.emissions),
        !.list_alternative3_emissions_wo_bus = @ \o twice(v.alternative3.emissions_wo_bus),
        !.list_alternative3_time = Append(@, v.alternative3.time),
        !.list_alternative3_distance = @ \o twice(v.alternative3.distance)]

\* every option is appended twice, once per leg row
AppendVariants(R, v) ==
  LET twice(x) == <<x, x>>
  IN [R EXCEPT
        !.list_alternative_emissions = @ \o twice(v.alternative.emissions),
        !.list_alternative_emissions_wo_bus = @ \o twice(v.alternative.emissions_wo_bus),
        !.list_alternative_time = @ \o twice(v.alternative.time),
        !.list_alternative_distance = @ \o twice(v.alternative.distance),
        !.list_alternative2_emissions = @ \o twice(v.alternative2.emissions),
        !.list_alternative2_emissions_wo_bus = @ \o twice(v.alternative2.emissions_wo_bus),
        !.list_alternative2_time = @ \o twice(v.alternative2.time),
        !.list_alternative2_distance = @ \o twice(v.alternative2.distance),
        !.list_alternative3_emissions = @ \o twice(v.alternative3.emissions),
        !.list_alternative3_emissions_wo_bus = @ \o twice(v.alternative3.emissions_wo_bus),
        !.list_alternative3_time = @ \o twice(v.alternative3.time),
        !.list_alternative3_distance = @ \o twice(v.alternative3.distance)]

\* lines 177-355: one iteration of the second loop
RootAlternativeRow(R, row) ==
  LET visiting_team == row["Visiting team"]
      hosting_team == row["Host team"]
  IN  IF visiting_team # hosting_team
      THEN LET plane == get_emissions_and_time(visiting_team, hosting_team, "avion")
               train == get_emissions_and_time(visiting_team, hosting_team, "train")
               bus == get_emissions_and_time(visiting_team, hosting_team, "bus")
           IN  IF plane.exc # "none" THEN Step(R, plane.exc)
               ELSE IF train.exc # "none" THEN Step(R, train.exc)
               ELSE IF bus.exc # "none" THEN Step(R, bus.exc)
               ELSE Step(AppendVariants(R, SelectAlternatives(plane, train, bus)), "none")
      ELSE Step(AppendVariants(R, Variants(ZeroOption, ZeroOption, ZeroOption)), "none")

\* the columns of final_df, in the order lines 359-385 assign them
RootColumns ==
  <<<<"Id", "list_id">>,
    <<"Visiting team", "list_visiting_team">>,
    <<"Hosting team", "list_hosting_team">>,
    <<"étape", "list_aller_retour">>,
    <<"transport", "list_transport">>,
    <<"emissions_kg_co2", "list_emissions">>,
    <<"travel_time_seconds", "list_time">>,
    <<"distance_km", "list_distance">>,
    <<"alternative_emissions_kg_co2", "list_alternative_emissions">>,
    <<"alternative_emissions_kg_co2_wo_empty_bus", "list_alternative_emissions_wo_bus">>,
    <<"alternative_travel_time_seconds", "list_alternative_time">>,
    <<"alternative_distance_km", "list_alternative_distance">>,
    <<"alternative_emissions_kg_co2_scenario<3", "list_alternative2_emissions">>,
    <<"alternative_emissions_kg_co2_wo_empty_bus_scenario<3",
      "list_alternative2_emissions_wo_bus">>,
    <<"alternative_travel_time_seconds_scenario<3", "list_alternative2_time">>,
    <<"alternative_distance_km_scenario<3", "list_alternative2_distance">>,
    <<"alternative_emissions_kg_co2_scenario<6", "list_alternative3_emissions">>,
    <<"alternative_emissions_kg_co2_wo_empty_bus_scenario<6",
      "list_alternative3_emissions_wo_bus">>,
    <<"alternative_travel_time_seconds_scenario<6", "list_alternative3_time">>,
    <<"alternative_distance_km_scenario<6", "list_alternative3_distance">>>>

\* the list a column of final_df is filled from
ColumnList(R, column) ==
  LET k == CHOOSE k \in 1..Len(RootColumns) : RootColumns[k][1] = column
  IN  R[RootColumns[k][2]]

\* pandas accepts a list as a column only when it is as long as the frame
RootFrameFits(R) ==
  \A k \in 1..Len(RootColumns) : Len(R[RootColumns[k][2]]) = Len(R.list_id)

\* lines 357-385: the frame, one record per leg row
RootFrame(R) ==
  [n \in 1..Len(R.list_id) |->
     [column \in {RootColumns[k][1] : k \in 1..Len(RootColumns)} |->
        ColumnList(R, column)[n]]]

---------------------------------------------------------------------------
(* main of scripts/Calculate_emissions.py *)

ScriptsLocals0 ==
  [list_emissions |-> <<>>, list_time |-> <<>>,
   list_alternative_emissions |-> <<>>, list_alternative_time |-> <<>>,
   list_alternative_emissions_wo_bus |-> <<>>]

\* line 80
ScriptsAddsEmptyBus(transport, visiting_team, hosting_team) ==
  transport # "bus" /\ visiting_team # hosting_team

\* lines 70-87: one iteration of the first loop
ScriptsBaselineRow(S, row) ==
  LET visiting_team == row["Visiting team"]
      hosting_team == row["Host team"]
      transport == row["Transport"]
      got == scripts_get_emissions_and_time(visiting_team, hosting_team, Lower(transport))
      add == ScriptsAddsEmptyBus(transport, visiting_team, hosting_team)
      bus == scripts_get_emissions_and_time(visiting_team, hosting_team, Lower("bus"))
      emission == IF add THEN got.emission_in_kg + bus.emission_in_kg
                  ELSE got.emission_in_kg
  IN  IF got.exc # "none" THEN Step(S, got.exc)
      ELSE IF add /\ bus.exc # "none" THEN Step(S, bus.exc)
      ELSE Step([S EXCEPT !.list_emissions = Append(@, emission),
                          !.list_time = Append(@, got.time_in_sec)],
                "none")

\* lines 105-116: the bus when strictly faster, else the train and the empty bus
ScriptsSelectAlternative(train, bus) ==
  IF bus.time_in_sec < train.time_in_sec
  THEN Option(bus.emission_in_kg, bus.emission_in_kg, bus.time_in_sec, 0)
  ELSE Option(train.emission_in_kg + bus.emission_in_kg, train.emission_in_kg,
              train.time_in_sec, 0)

ScriptsAppendAlternative(S, a) ==
  [S EXCEPT !.list_alternative_emissions = Append(@, a.emissions),
            !.list_alternative_emissions_wo_bus = Append(@, a.emissions_wo_bus),
            !.list_alternative_time = Append(@, a.time)]

\* lines 93-120: one iteration of the second loop
ScriptsAlternativeRow(S, row) ==
  LET visiting_team == row["Visiting team"]
      hosting_team == row["Host team"]
  IN  IF visiting_team # hosting_team
      THEN LET train == scripts_get_emissions_and_time(visiting_team, hosting_team, "train")
               bus == scripts_get_emissions_and_time(visiting_team, hosting_team, "bus")
           IN  IF train.exc # "none" THEN Step(S, train.exc)
               ELSE IF bus.exc # "none" THEN Step(S, bus.exc)
               ELSE Step(ScriptsAppendAlternative(S, ScriptsSelectAlternative(train, bus)),
                         "none")
      ELSE Step(ScriptsAppendAlternative(S, ZeroOption), "none")

\* lines 123-130: reconstructed_data.copy() with the five new columns
ScriptsFrame(S) ==
  [n \in 1..Len(reconstructed_data) |->
     reconstructed_data[n]
       @@ ("emissions_kg_co2" :> S.list_emissions[n])
       @@ ("travel_time_seconds" :> S.list_time[n])
       @@ ("alternative_emissions_kg_co2" :> S.list_alternative_emissions[n])
       @@ ("alternative_emissions_kg_co2_wo_empty_bus" :>
             S.list_alternative_emissions_wo_bus[n])
       @@ ("alternative_travel_time_seconds" :> S.list_alternative_time[n])]

---------------------------------------------------------------------------
(* scripts/utils_scenarios.py *)

\* the outcome of select_option: the returned tuple, or the KeyError of the
\* first column the row lacks
Selected(emissions, emissions_wo_empty_bus, travel_time, transport_type, use_alternative) ==
  [exc |-> "none", key |-> "", emissions |-> emissions,
   emissions_wo_empty_bus |-> emissions_wo_empty_bus, travel_time |-> travel_time,
   transport_type |-> transport_type, alt_sel |-> use_alternative]

KeyError(key) ==
  [exc |-> "KeyError", key |-> key, emissions |-> 0, emissions_wo_empty_bus |-> 0,
   travel_time |-> 0, transport_type |-> "", alt_sel |-> FALSE]

\* A faulty test: the alternative is used when it takes longer than the
\* threshold.
UseAlternative_above(row, threshold_seconds) ==
  row["alternative_travel_time_seconds"] > threshold_seconds

\* line 54
UseAlternative(row, threshold_seconds) ==
  row["alternative_travel_time_seconds"] < threshold_seconds

\* lines 48-64
select_option(row, threshold_seconds) ==
  IF "alternative_travel_time_seconds" \notin DOMAIN row
  THEN KeyError("alternative_travel_time_seconds")
  ELSE
    LET use_alternative == UseAlternative(row, threshold_seconds)
        particule == IF use_alternative THEN "alternative_" ELSE ""
        keys == <<particule \o "emissions_kg_co2",
                  particule \o "emissions_kg_co2_wo_empty_bus",
                  particule \o "travel_time_seconds",
                  particule \o "transport_type">>
        missing == {k \in 1..4 : keys[k] \notin DOMAIN row}
    IN  IF missing # {}
        THEN KeyError(keys[CHOOSE k \in missing : \A j \in missing : k <= j])
        ELSE Selected(row[keys[1]], row[keys[2]], row[keys[3]], row[keys[4]],
                      use_alternative)

\* one generated row
ScenarioEntry(scenario, visiting_team, hosting_team, transport_type, from_transport, from_empty_bus, travel_time_seconds, alternative_selected) ==
  [scenario |-> scenario, visiting_team |-> visiting_team,
   hosting_team |-> hosting_team, transport_type |-> transport_type,
   emissions_kg_co2_from_transport |-> from_transport,
   emissions_kg_co2_from_empty_bus |-> from_empty_bus,
   travel_time_seconds |-> travel_time_seconds,
   alternative_selected |-> alternative_selected]

\* A faulty prime variant: the empty-bus field repeats the transport
\* emissions instead of being 0.
PrimeEntry_keeps_emissions(scenario_base, visiting_team, hosting_team, transport_type, emissions_kg_co2_wo_empty_bus, travel_time_seconds, alternative_selected) ==
  ScenarioEntry(scenario_base \o "'", visiting_team, hosting_team, transport_type,
                emissions_kg_co2_wo_empty_bus, emissions_kg_co2_wo_empty_bus,
                travel_time_seconds, alternative_selected)

\* lines 34-45: the prime variant of a scenario row
PrimeEntry(scenario_base, visiting_team, hosting_team, transport_type, emissions_kg_co2_wo_empty_bus, travel_time_seconds, alternative_selected) ==
  ScenarioEntry(scenario_base \o "'", visiting_team, hosting_team, transport_type,
                emissions_kg_co2_wo_empty_bus, 0, travel_time_seconds,
                alternative_selected)

\* A faulty append_scenario: the empty-bus emissions are taken as the
\* emissions without the empty bus minus the full ones.
append_scenario_reversed_difference(es, scenario_base, visiting_team, hosting_team, transport_type, emissions_kg_co2, emissions_kg_co2_wo_empty_bus, travel_time_seconds, alternative_selected) ==
  LET emission_empty_bus == emissions_kg_co2_wo_empty_bus - emissions_kg_co2
  IN  es \o
      <<ScenarioEntry(scenario_base, visiting_team, hosting_team, transport_type,
                      emissions_kg_co2_wo_empty_bus, emission_empty_bus,
                      travel_time_seconds, alternative_selected),
        PrimeEntry(scenario_base, visiting_team, hosting_team, transport_type,
                   emissions_kg_co2_wo_empty_bus, travel_time_seconds,
                   alternative_selected)>>

\* lines 9-45
append_scenario(es, scenario_base, visiting_team, hosting_team, transport_type, emissions_kg_co2, emissions_kg_co2_wo_empty_bus, travel_time_seconds, alternative_selected) ==
  LET emission_empty_bus == emissions_kg_co2 - emissions_kg_co2_wo_empty_bus
  IN  es \o
      <<ScenarioEntry(scenario_base, visiting_team, hosting_team, transport_type,
                      emissions_kg_co2_wo_empty_bus, emission_empty_bus,
                      travel_time_seconds, alternative_selected),
        PrimeEntry(scenario_base, visiting_team, hosting_team, transport_type,
                   emissions_kg_co2_wo_empty_bus, travel_time_seconds,
                   alternative_selected)>>

\* lines 82-101: the scenarios of one row, from the k-th key on
RECURSIVE ScenarioLoop(_, _, _, _)
ScenarioLoop(es, row, limits, k) ==
  IF k > Len(limits)
  THEN Step(es, "none")
  ELSE LET scenario == limits[k].scenario
           sel == select_option(row, limits[k].threshold)
       IN  IF sel.exc # "none"
           THEN Step(es, sel.exc)
           ELSE ScenarioLoop(
                  append_scenario(es, scenario, row["visiting_team"], row["hosting_team"],
                                  sel.transport_type, sel.emissions,
                                  sel.emissions_wo_empty_bus, sel.travel_time, sel.alt_sel),
                  row, limits, k + 1)

\* A faulty test: no row is skipped.
SkipsRow_never(row) == FALSE

\* line 77: a row whose two teams are the same is skipped
SkipsRow(row) == row["visiting_team"] = row["hosting_team"]

\* lines 74-101: one iteration of the loop over the frame
BuildRow(es, row, limits) ==
  IF "visiting_team" \notin DOMAIN row \/ "hosting_team" \notin DOMAIN row
  THEN Step(es, "KeyError")
  ELSE IF SkipsRow(row)
  THEN Step(es, "none")
  ELSE ScenarioLoop(es, row, limits, 1)

---------------------------------------------------------------------------
(* backend/services: base_transport_service.py and car_service.py *)
(*                                                                         *)
(* Numbers.  Distances are whole kilometres (the Directions API reports     *)
(* metres, here multiples of 1000), emission factors are counted in         *)
(* 1e-4 kg, so that 0.0744 kg is 744 and an emission of 10416000 is         *)
(* 1041.6 kg.                                                               *)

NUMBER_OF_PASSENGERS == 70
\* 0.0744 kgCO2/passenger/km
AUTO_CAR_EMISSION_FACTOR == 744

\* Python's None and a value that is not None
None == <<>>
Some(x) == <<x>>

\* the dataclass of base_transport_service.py
RouteData(departure, arrival, travel_time, distance, emissions, transport_type, route_details) ==
  [departure |-> departure, arrival |-> arrival, travel_time |-> travel_time,
   distance |-> distance, emissions |-> emissions, transport_type |-> transport_type,
   route_details |-> route_details]

\* the outcome of a service call: what it returned, or the exception raised
Return(value) == [exc |-> "none", value |-> value]
Raise(name) == [exc |-> name, value |-> None]

\* What a request to the Directions API meets: error is the
\* requests.RequestException raised by requests.get or raise_for_status
\* ("none" when the body arrives), status and routes are the body's.
RequestErrors == {"ConnectionError", "HTTPError"}

Leg(distance_value, duration_value) ==
  [distance_value |-> distance_value, duration_value |-> duration_value]

Legs == {Leg(1000 * km, s) : km \in {0, 1, 25, 100}, s \in {0, 1800, 3600}}

Body(status, routes) == [error |-> "none", status |-> status, routes |-> routes]

Failure(error) == [error |-> error, status |-> "", routes |-> <<>>]

Responses ==
  {Failure(e) : e \in RequestErrors}
    \cup {Body(st, r) : st \in {"OK", "ZERO_RESULTS"}, r \in {<<>>} \cup {<<l>> : l \in Legs}}

\* lines 65-84: the parsed body, or None after a RequestException
make_google_maps_request(resp) ==
  IF resp.error \in RequestErrors THEN None ELSE Some(resp)

\* A faulty lookup: the routes of the body are read without the test that
\* there are any.
get_road_distance_duration_unchecked_routes(resp) ==
  LET data == make_google_maps_request(resp)
  IN  IF data # None /\ data[1].status = "OK"
      THEN IF data[1].routes = <<>>
           THEN Raise("IndexError")
           ELSE Return(<<Some(data[1].routes[1].distance_value \div 1000),
                         Some(data[1].routes[1].duration_value)>>)
      ELSE Return(<<None, None>>)

\* lines 112-137: (distance_km, duration_seconds), or (None, None)
get_road_distance_duration(resp) ==
  LET data == make_google_maps_request(resp)
  IN  IF data # None /\ data[1].status = "OK" /\ data[1].routes # <<>>
      THEN Return(<<Some(data[1].routes[1].distance_value \div 1000),
                    Some(data[1].routes[1].duration_value)>>)
      ELSE Return(<<None, None>>)

\* A faulty emission formula: the round trip is counted on both legs.
car_emissions_doubled_twice(distance_km) ==
  AUTO_CAR_EMISSION_FACTOR * distance_km * NUMBER_OF_PASSENGERS * 2 * 2

\* car_service.py line 40
car_emissions(distance_km) ==
  AUTO_CAR_EMISSION_FACTOR * distance_km * NUMBER_OF_PASSENGERS * 2

\* car_service.py lines 19-59: CarTrajetService.calculate_route
CarTrajetService_calculate_route(departure, arrival, resp) ==
  LET looked == get_road_distance_duration(resp)
  IN  IF looked.exc # "none"
      THEN Raise(looked.exc)
      ELSE LET distance_km == looked.value[1]
               duration_seconds == looked.value[2]
           IN  IF distance_km # None /\ duration_seconds # None
               THEN Return(Some(RouteData(departure, arrival, duration_seconds[1],
                                          distance_km[1], car_emissions(distance_km[1]),
                                          "car", None)))
               ELSE Return(Some(RouteData(departure, arrival, 0, 0, 0, "car",
                                          Some([car_route_details |-> "No car route found"]))))

---------------------------------------------------------------------------
(* backend/services/plane_service.py *)
(*                                                                         *)
(* Numbers.  Hours are counted in 1e-6 h: the two coefficients are rounded  *)
(* to that grain, distances are whole kilometres.                           *)

\* plane_service.py line 26: 0.285387849787546, "h/km"
time_plane_coef == 285388
\* plane_service.py line 27: 0.00120352141554664, "h"
time_plane_intercept == 1204

\* lines 129-134: int() cuts the seconds; minutes * 60 / 1e6 is computed as
\* minutes * 6 / 1e5, the same number
calculate_flight_time(distance_km) ==
  LET time_in_hours == time_plane_coef * distance_km + time_plane_intercept
      hours == time_in_hours \div 1000000
      minutes == (time_in_hours - hours * 1000000) * 60
  IN  hours * 3600 + (minutes * 6) \div 100000

\* Coordinates are degrees in 1e-7.  Every point of the model lies on one
\* meridian, so the great-circle distance is the arc between the latitudes.
Coords(latitude, longitude) == <<latitude, longitude>>

Meridian == 23000000

\* the stadiums of stadiums.csv, in file order
StadiumTeams == <<"PSG", "OM", "OL">>

StadiumCoords(team) ==
  CASE team = "PSG" -> Coords(488414000, Meridian)
    [] team = "OM" -> Coords(432698000, Meridian)
    [] team = "OL" -> Coords(457653000, Meridian)

\* base_transport_service.py lines 139-151 on one meridian: R * c with
\* R = 6371 km is 111.19 km per degree, cut to whole kilometres
calculate_distance_km(lat1, lon1, lat2, lon2) ==
  LET dlat == IF lat1 >= lat2 THEN lat1 - lat2 ELSE lat2 - lat1
  IN  ((dlat \div 100000) * 11119) \div 10000

\* plane_service.py line 10
airport_keywords == {"airport", "Airport", "Aeroport", "Aéroport", "aéroport", "aeroport"}

\* str.lower() on the words of the model
lower(word) ==
  CASE word \in {"Airport", "AIRPORT"} -> "airport"
    [] word \in {"Aeroport", "AEROPORT"} -> "aeroport"
    [] word = "Aéroport" -> "aéroport"
    [] word = "Gare" -> "gare"
    [] word = "Paris" -> "paris"
    [] word = "Orly" -> "orly"
    [] word = "Marseille" -> "marseille"
    [] word = "Lyon" -> "lyon"
    [] OTHER -> word

\* lines 29-31: a place name is the sequence of its words; a keyword is in
\* the name when it is one of its words, case apart
is_real_airport(place_name) ==
  \E keyword \in airport_keywords :
    \E k \in 1..Len(place_name) : lower(place_name[k]) = lower(keyword)

\* a place of a Nearby Search answer: name and geometry.location
Place(name, lat, lng) == [name |-> name, lat |-> lat, lng |-> lng]

NearbyPlaces ==
  {Place(<<"Aéroport", "Paris", "Orly">>, 487262000, Meridian),
   Place(<<"Marseille", "AIRPORT">>, 434393000, Meridian),
   Place(<<"Gare", "Lyon">>, 457600000, Meridian)}

\* what a Nearby Search request meets
Nearby(status, results) == [error |-> "none", status |-> status, results |-> results]

\* lines 72-74: the key of a pair of coordinates, both rounded to 6 decimals
Rounded6(x) == (x + 5) \div 10

get_cache_key(lat, lon) == <<Rounded6(lat), Rounded6(lon)>>

\* a Python dict with one more key
DictSet(d, key, value) ==
  [k \in DOMAIN d \cup {key} |-> IF k = key THEN value ELSE d[k]]

EmptyDict == [k \in {} |-> k]

\* the result of a call that may change the cache and send a request
Outcome(value, cache, requests) == [value |-> value, cache |-> cache, requests |-> requests]

Airport(name, latitude, longitude) ==
  [name |-> name, latitude |-> latitude, longitude |-> longitude]

AirportError(error) == [error |-> error]

NearbyRequest(lat, lon) == [api |-> "nearbysearch", location |-> <<lat, lon>>]

\* lines 102-105: the first place of the results that is a real airport
RECURSIVE first_real_airport(_)
first_real_airport(results) ==
  IF results = <<>>
  THEN None
  ELSE IF is_real_airport(Head(results).name)
       THEN Some(Head(results))
       ELSE first_real_airport(Tail(results))

\* A faulty lookup: the cache is not consulted, every call sends its request
\* and stores what it finds.
get_nearest_airport_always_asks(cache, lat, lon, resp) ==
  LET cache_key == get_cache_key(lat, lon)
      data == make_google_maps_request(resp)
  IN  IF data # None /\ data[1].status = "OK" /\ data[1].results # <<>>
      THEN LET valid_result == first_real_airport(data[1].results)
           IN  IF valid_result # None
               THEN LET airport_data == Airport(valid_result[1].name, valid_result[1].lat,
                                                valid_result[1].lng)
                    IN  Outcome(airport_data, DictSet(cache, cache_key, airport_data),
                                <<NearbyRequest(lat, lon)>>)
               ELSE Outcome(AirportError("No real airport found in results"), cache,
                            <<NearbyRequest(lat, lon)>>)
      ELSE Outcome(AirportError(IF data # None THEN data[1].status ELSE "Request failed"),
                   cache, <<NearbyRequest(lat, lon)>>)

\* lines 84-122: PlaneTrajetService.get_nearest_airport, resp being what the
\* request meets if one is sent
get_nearest_airport(cache, lat, lon, resp) ==
  LET cache_key == get_cache_key(lat, lon)
      data == make_google_maps_request(resp)
  IN  IF cache_key \in DOMAIN cache
      THEN Outcome(cache[cache_key], cache, <<>>)
      ELSE IF data # None /\ data[1].status = "OK" /\ data[1].results # <<>>
           THEN LET valid_result == first_real_airport(data[1].results)
                IN  IF valid_result # None
                    THEN LET airport_data == Airport(valid_result[1].name, valid_result[1].lat,
                                                     valid_result[1].lng)
                         IN  Outcome(airport_data, DictSet(cache, cache_key, airport_data),
                                     <<NearbyRequest(lat, lon)>>)
                    ELSE Outcome(AirportError("No real airport found in results"), cache,
                                 <<NearbyRequest(lat, lon)>>)
           ELSE Outcome(AirportError(IF data # None THEN data[1].status ELSE "Request failed"),
                        cache, <<NearbyRequest(lat, lon)>>)

\* Emissions of a plane record.  Fuel is counted in 1e-4 kg; 3.15 times a
\* fuel mass is a whole number of 1e-6 kg, and so is 0.0744 * 70 times a
\* whole number of kilometres.  The emissions are counted in units of
\* EmissionGrain * 1e-6 kg, the largest unit that keeps both whole.
EmissionGrain == 105

\* plane_service.py line 19: 3.15 kgCO2 per kg of fuel, in 1e-2
jet_fuel_to_co2 == 315
\* line 22: 1.2174 kg/km, in 1e-4 kg
fuel_consumption_coef == 12174
\* line 23: 282.8615 kg, in 1e-4 kg
fuel_consumption_intercept == 2828615

\* lines 125-127, in 1e-4 kg
calculate_fuel_consumption(distance) ==
  fuel_consumption_coef * distance + fuel_consumption_intercept

\* line 192: jet_fuel_to_co2 * fuel_consumption, in emission units
plane_emission_of(fuel_consumption) ==
  (jet_fuel_to_co2 \div EmissionGrain) * fuel_consumption

\* A faulty transfer emission: the round trip of the car service is applied
\* to the kilometres of the transfers.
autocar_emission_of_round_trip(distance_autocar) ==
  ((AUTO_CAR_EMISSION_FACTOR * NUMBER_OF_PASSENGERS * 100) \div EmissionGrain)
    * distance_autocar * 2

\* line 193: autocar_emission_factor * number_of_passengers * kilometres,
\* in emission units (the factor is in 1e-4 kg, hence * 100)
autocar_emission_of(distance_autocar) ==
  ((AUTO_CAR_EMISSION_FACTOR * NUMBER_OF_PASSENGERS * 100) \div EmissionGrain)
    * distance_autocar

\* "x if x else 0" on a value that may be None
OrZero(x) == IF x # None /\ x[1] # 0 THEN x[1] ELSE 0

DirectionsRequest(origin, destination) ==
  [api |-> "directions", origin |-> origin, destination |-> destination]

\* lines 137-215: PlaneTrajetService.calculate_route; nearby_dep and
\* nearby_arr are what the two Nearby Search requests meet, road_dep and
\* road_arr what the two Directions requests meet
PlaneTrajetService_calculate_route(departure, arrival, departure_coords, arrival_coords, cache, nearby_dep, nearby_arr, road_dep, road_arr) ==
  LET dep == get_nearest_airport(cache, departure_coords[1], departure_coords[2], nearby_dep)
      arr == get_nearest_airport(dep.cache, arrival_coords[1], arrival_coords[2], nearby_arr)
      departure_airport == dep.value
      arrival_airport == arr.value
  IN  IF "error" \in DOMAIN departure_airport \/ "error" \in DOMAIN arrival_airport
      THEN Outcome(Return(None), arr.cache, dep.requests \o arr.requests)
      ELSE LET flight_distance_km ==
                 calculate_distance_km(departure_airport.latitude, departure_airport.longitude,
                                       arrival_airport.latitude, arrival_airport.longitude)
               flight_time == calculate_flight_time(flight_distance_km)
               looked_dep == get_road_distance_duration(road_dep).value
               looked_arr == get_road_distance_duration(road_arr).value
               distance_autocar_dep == OrZero(looked_dep[1])
               time_autocar_dep == OrZero(looked_dep[2])
               distance_autocar_arr == OrZero(looked_arr[1])
               time_autocar_arr == OrZero(looked_arr[2])
               added_details ==
                 (IF distance_autocar_dep = 0 THEN "No autocar departure route found" ELSE "")
                   \o (IF distance_autocar_arr = 0 THEN "No autocar arrival route found" ELSE "")
               total_distance == flight_distance_km + distance_autocar_dep + distance_autocar_arr
               total_time == flight_time + time_autocar_dep + time_autocar_arr
               fuel_consumption == calculate_fuel_consumption(flight_distance_km)
               plane_emission == plane_emission_of(fuel_consumption)
               autocar_emission == autocar_emission_of(distance_autocar_dep + distance_autocar_arr)
               total_emissions == (plane_emission + autocar_emission) * 2
           IN  Outcome(
                 Return(Some(RouteData(departure, arrival, total_time, total_distance,
                                       total_emissions, "plane",
                                       Some([flight_distance |-> flight_distance_km,
                                             flight_time |-> flight_time,
                                             autocar_distance |->
                                               distance_autocar_dep + distance_autocar_arr,
                                             autocar_time |-> time_autocar_dep + time_autocar_arr,
                                             fuel_consumption |-> fuel_consumption,
                                             plane_emission |-> plane_emission,
                                             autocar_emission |-> autocar_emission,
                                             added_details |-> added_details])))),
                 arr.cache,
                 dep.requests \o arr.requests
                   \o <<DirectionsRequest(departure_coords,
                                          Coords(departure_airport.latitude,
                                                 departure_airport.longitude)),
                        DirectionsRequest(Coords(arrival_airport.latitude,
                                                 arrival_airport.longitude),
                                          arrival_coords)>>)

---------------------------------------------------------------------------
(* backend/services/train_service.py *)
(*                                                                         *)
(* Numbers.  Durations are seconds.  A section's length is a whole number   *)
(* of kilometres given in metres, its co2_emission a whole number of        *)
(* kilograms given in grams, so that / 1000.0 is exact.                     *)

\* car_service.py lines 19-20: the parameters CarTrajetService.calculate_route takes
calculate_route_parameters == {"departure", "arrival", "departure_coords", "arrival_coords"}

\* the methods a CarTrajetService has: car_service.py lines 19 and 60,
\* base_transport_service.py lines 65-336
CarTrajetService_methods ==
  {"calculate_route", "run_complete_analysis", "process_all_routes",
   "calculate_distance", "get_coordinates_stadiums", "_make_google_maps_request",
   "_get_coordinates_for_place", "_get_road_distance_duration", "_load_stadium_data",
   "_format_coordinates", "_create_route_name", "_parse_route_name", "_save_route_data"}

\* base_transport_service.py lines 25-31: the fields of RouteData
RouteData_fields ==
  {"departure", "arrival", "travel_time", "distance", "emissions", "transport_type",
   "route_details"}

\* train_service.py lines 40-56, base_transport_service.py lines 53-63: the
\* attributes __init__ gives a TrainTrajetService
TrainTrajetService_attributes ==
  {"api_key", "console", "logger", "sncf_api_key", "closest_station_cache",
   "gare_positions_df", "car_service", "number_of_passengers"}

\* the places sections run between, and their position along one line, km
Places == {"A", "B", "C", "D"}

Position(place) ==
  CASE place = "A" -> 0
    [] place = "B" -> 10
    [] place = "C" -> 25
    [] place = "D" -> 225

\* base_transport_service.py lines 139-151: the great-circle distance between
\* the coordinates of two places, km
calculate_distance(place1, place2) ==
  IF Position(place1) >= Position(place2)
  THEN Position(place1) - Position(place2)
  ELSE Position(place2) - Position(place1)

\* a section of a journey as the SNCF API gives it: duration in s, length
\* (geojson.properties[0].length) in m, co2_emission (its value) in g, from
\* and to the names and coordinates of its two ends
Section(type, physical_mode, duration, length, co2_emission, from, to) ==
  [type |-> type, physical_mode |-> physical_mode, duration |-> duration,
   length |-> length, co2_emission |-> co2_emission, from |-> from, to |-> to]

RER == "RER / Transilien"
TGV == "Train grande vitesse"

Sections ==
  {Section("public_transport", RER, 900, 10000, 1000, "A", "B"),
   Section("public_transport", RER, 1200, 15000, 1000, "B", "C"),
   Section("public_transport", TGV, 3600, 200000, 4000, "C", "D"),
   Section("public_transport", TGV, 5400, 225000, 5000, "A", "D"),
   Section("boarding", "", 120, 0, 0, "C", "C"),
   Section("transfer", "", 300, 1000, 0, "C", "C"),
   Section("waiting", "", 600, 0, 0, "C", "C"),
   Section("crow_fly", "", 240, 1000, 1000, "A", "A"),
   Section("street_network", "", 180, 0, 0, "D", "D")}

\* lines 84-98: the sections kept for the loop
Kept(sec) == sec.type \notin {"crow_fly", "boarding", "transfer", "waiting"}

corrected_sections(sections) == SelectSeq(sections, Kept)

\* lines 84-98: the durations of boarding, transfer and waiting sections
RECURSIVE waiting_time(_)
waiting_time(sections) ==
  IF sections = <<>>
  THEN 0
  ELSE (IF Head(sections).type \in {"boarding", "transfer", "waiting"}
        THEN Head(sections).duration
        ELSE 0) + waiting_time(Tail(sections))

\* lines 107-118: the position after the run of RER / Transilien sections
\* that j continues
RECURSIVE rer_group_end(_, _)
rer_group_end(corrected, j) ==
  IF j <= Len(corrected) /\ corrected[j].physical_mode = RER
  THEN rer_group_end(corrected, j + 1)
  ELSE j

\* lines 142-171: the car route that replaces a run.  With
\* compute_using_google the call passes round_trip, a keyword
\* calculate_route does not take; without it the call of
\* car_service.calculate_emissions finds no such method.
rer_car_route(from_name, to_name, compute_using_google) ==
  IF compute_using_google
  THEN CASE ~({"departure", "arrival", "departure_coords", "arrival_coords", "round_trip"}
                \subseteq calculate_route_parameters) -> Raise("TypeError")
  ELSE LET approximate_distance_km == calculate_distance(from_name, to_name)
           approximate_travel_time_seconds == (approximate_distance_km * 3600) \div 50
       IN  CASE "calculate_emissions" \notin CarTrajetService_methods ->
                  Raise("AttributeError")

\* one row of the details
Detail(from, to, type, distance_km, co2_kg, time_s) ==
  [from |-> from, to |-> to, type |-> type, distance_km |-> distance_km,
   co2_kg |-> co2_kg, time_s |-> time_s]

Totals(total_co2, total_dist, total_time, details) ==
  [total_co2 |-> total_co2, total_dist |-> total_dist, total_time |-> total_time,
   details |-> details]

\* A faulty step: a section without distance has a detail row as well.
section_step_row_for_every_leg(t, sec) ==
  LET sec_time == sec.duration
      sec_dist == sec.length \div 1000
      sec_co2 == sec.co2_emission \div 1000
  IN  Totals(t.total_co2 + sec_co2, t.total_dist + sec_dist, t.total_time + sec_time,
             Append(t.details,
                    Detail(sec.from, sec.to, sec.type, sec_dist, sec_co2, sec_time)))

\* lines 189-221: a section that is not RER / Transilien is added to the
\* totals, and to the details when it has a distance (length / 1000.0 > 0
\* exactly when the length is)
section_step(t, sec) ==
  LET sec_time == sec.duration
      sec_dist == sec.length \div 1000
      sec_co2 == sec.co2_emission \div 1000
  IN  Totals(t.total_co2 + sec_co2, t.total_dist + sec_dist, t.total_time + sec_time,
             IF sec.length > 0
             THEN Append(t.details,
                         Detail(sec.from, sec.to, sec.type, sec_dist, sec_co2, sec_time))
             ELSE t.details)

\* lines 100-221: the loop over the kept sections, from position i with the
\* totals so far
RECURSIVE trip_loop(_, _, _, _)
trip_loop(corrected, i, t, compute_using_google) ==
  IF i > Len(corrected)
  THEN Return(t)
  ELSE LET sec == corrected[i]
       IN  IF sec.physical_mode = RER
           THEN LET j == rer_group_end(corrected, i + 1)
                    from_name == sec.from
                    to_name == corrected[j - 1].to
                    car_route == rer_car_route(from_name, to_name, compute_using_google)
                IN  IF car_route.exc # "none"
                    THEN Raise(car_route.exc)
                    ELSE LET r == car_route.value[1]
                         IN  trip_loop(corrected, j,
                               Totals(t.total_co2 + r.emissions_kg_co2,
                                      t.total_dist + r.distance_km,
                                      t.total_time + r.travel_time_seconds,
                                      Append(t.details,
                                             Detail(from_name, to_name, "car", r.distance_km,
                                                    r.emissions_kg_co2, r.travel_time_seconds))),
                               compute_using_google)
           ELSE trip_loop(corrected, i + 1, section_step(t, sec), compute_using_google)

\* lines 66-228: TrainTrajetService._trip_stats
trip_stats(sections, compute_using_google) ==
  LET looped == trip_loop(corrected_sections(sections), 1, Totals(0, 0, 0, <<>>),
                          compute_using_google)
  IN  IF looped.exc # "none"
      THEN Raise(looped.exc)
      ELSE Return(Some([carbon_emission_kgCO2 |-> looped.value.total_co2,
                        distance_km |-> looped.value.total_dist,
                        duration_s |-> looped.value.total_time + waiting_time(sections),
                        details |-> looped.value.details]))

\* lines 445-452: a journey found between two stop areas
Journey(sections) ==
  [stop_area_departure_id |-> "stop_area:A", stop_area_arrival_id |-> "stop_area:D",
   sections |-> sections]

\* one aggregation run by calculate_route: on which journey, in which variant
Aggregation(candidate, compute_using_google, outcome) ==
  [candidate |-> candidate, compute_using_google |-> compute_using_google,
   outcome |-> outcome]

\* lines 468-473: min(week_trains, key=...) returns the first of the journeys
\* with the least key; cheap[k] is the key of journey k
FirstMinimum(cheap) ==
  CHOOSE k \in 1..Len(cheap) :
    /\ \A m \in 1..Len(cheap) : cheap[k] <= cheap[m]
    /\ \A m \in 1..(k - 1) : cheap[m] > cheap[k]

\* lines 294-401: TrainTrajetService._calculate_car_part reads
\* self.stadium_df at line 321, an attribute no code assigns
calculate_car_part(departure, arrival) ==
  CASE "stadium_df" \notin TrainTrajetService_attributes -> Raise("AttributeError")

\* lines 457-465 and 485-500: RouteData is built with the keywords
\* travel_time_seconds, distance_km and emissions_kg_co2, which are not
\* fields of the dataclass
TrainRouteData(departure, arrival) ==
  CASE ~({"departure", "arrival", "travel_time_seconds", "distance_km",
           "emissions_kg_co2", "transport_type", "route_details"}
            \subseteq RouteData_fields) -> Raise("TypeError")

\* train_service.py lines 403-500: the outcome of a whole call of
\* TrainTrajetService.calculate_route that found the given journeys
TrainTrajetService_calculate_route(departure, arrival, journeys) ==
  IF journeys = <<>>
  THEN TrainRouteData(departure, arrival)
  ELSE LET cheap == [k \in 1..Len(journeys) |-> trip_stats(journeys[k].sections, FALSE)]
           failed == {k \in 1..Len(journeys) : cheap[k].exc # "none"}
       IN  IF failed # {}
           THEN Raise(cheap[CHOOSE k \in failed : \A m \in failed : k <= m].exc)
           ELSE LET k == FirstMinimum([m \in 1..Len(journeys) |-> cheap[m].value[1].duration_s])
                    fastest_train_route == trip_stats(journeys[k].sections, TRUE)
                    car_route == calculate_car_part(departure, arrival)
                IN  IF fastest_train_route.exc # "none"
                    THEN Raise(fastest_train_route.exc)
                    ELSE IF car_route.exc # "none"
                         THEN Raise(car_route.exc)
                         ELSE TrainRouteData(departure, arrival)

\* base_transport_service.py lines 317-322: the pairs (i, j) of positions of
\* stadium_df with i < j, in the order of the two loops, from (i, j) on
RECURSIVE PairsFrom(_, _, _)
PairsFrom(n, i, j) ==
  IF i >= n
  THEN <<>>
  ELSE IF j > n
       THEN PairsFrom(n, i + 1, i + 2)
       ELSE <<<<i, j>>>> \o PairsFrom(n, i, j + 1)

StadiumPairs(teams) == PairsFrom(Len(teams), 1, 2)

\* train_service.py lines 253-260 and 266: what one request to the SNCF API
\* meets, an exception the handler catches or an answer with its journeys
SncfErrors == {"ReadTimeout", "HTTPError"}

SncfFailure(error) == [error |-> error, journeys |-> <<>>]

SncfAnswer(journeys) == [error |-> "none", journeys |-> journeys]

\* a request sent: for which day, and what it met
SncfRequest(day, answer) == [api |-> "sncf", day |-> day, answer |-> answer]

\* A faulty backoff: the wait grows by 2 seconds per retry.
wait_time_linear(retries) == 2 * retries

\* line 280: wait_time = 2**retries
wait_time(retries) == 2 ^ retries

\* lines 251-291: the locals after one more request for the current day,
\* which met the given answer
sncf_after_attempt(s, answer) ==
  IF answer.error = "none"
  THEN [s EXCEPT !.week_trains = s.week_trains \o answer.journeys,
                 !.day = s.day + 1,
                 !.retries = 0]
  ELSE IF s.retries + 1 > s.max_retries
       THEN [s EXCEPT !.day = s.day + 1, !.retries = 0]
       ELSE [s EXCEPT !.retries = s.retries + 1,
                      !.slept = Append(s.slept, [day |-> s.day,
                                                 wait_time |-> wait_time(s.retries + 1)])]

---------------------------------------------------------------------------
(* Inputs *)

\* rows of the frame build_scenarios reads
MaxDfRows == 1
\* named thresholds of one run
MaxScenarios == 2

\* Mode tables of the resolver's own runs: the table under test holds up to
\* MaxTableRows rows, in either direction, self-pairs and repeated keys
\* included; the two other tables hold nothing or one reference row.
ResolveValues ==
  {v \in RouteValues :
     v.travel_time_seconds = (v.emissions_kg_co2 \div 2 + 1) * TimeUnit}

ResolveRows == {RouteRow(dep, arr, v) : dep \in Teams, arr \in Teams, v \in ResolveValues}

ReferenceRow ==
  [departure |-> "PSG", arrival |-> "OM", emissions_kg_co2 |-> 2 * MaxLoad + 2,
   travel_time_seconds |-> TimeUnit, distance_km |-> 4 * MaxLoad + 4]

PlainTables == {<<>>, <<ReferenceRow>>}

\* the tokens a call may carry: the known ones, a capitalised one, one that
\* names no mode
CallTokens == KnownModes \cup {"Bus", "-"}

\* Mode tables of a batch run: one row per unordered pair, stored in one
\* direction, or no row at all.
BatchTables == {<<>>} \cup {<<RouteRow("PSG", "OM", v)>> : v \in RouteValues}

TravelRow(visiting, host, transport) ==
  ("Visiting team" :> visiting) @@ ("Host team" :> host) @@ ("Transport" :> transport)

TravelRows == {TravelRow(v, h, t) : v \in Teams, h \in Teams, t \in Transports}

NonEmptySeqs(S, n) == SeqsUpTo(S, n) \ {<<>>}

\* The frame of build_scenarios: per pair a baseline and an alternative,
\* each with its transport type, its emissions without and with the empty
\* bus, and its travel time.
ScenarioValues ==
  {[wo |-> 2 * k, with |-> 2 * k + 2 * j, time |-> t] :
     k \in 0..MaxLoad, j \in 0..MaxLoad,
     t \in {n * TimeUnit : n \in 0..MaxScenarioTimeSteps}}

DfRow(visiting, hosting, base_type, base, alt_type, alt) ==
  ("visiting_team" :> visiting) @@ ("hosting_team" :> hosting)
    @@ ("transport_type" :> base_type)
    @@ ("emissions_kg_co2" :> base.with)
    @@ ("emissions_kg_co2_wo_empty_bus" :> base.wo)
    @@ ("travel_time_seconds" :> base.time)
    @@ ("alternative_transport_type" :> alt_type)
    @@ ("alternative_emissions_kg_co2" :> alt.with)
    @@ ("alternative_emissions_kg_co2_wo_empty_bus" :> alt.wo)
    @@ ("alternative_travel_time_seconds" :> alt.time)

DfRows ==
  {DfRow(v, h, bt, b, at, a) :
     v \in Teams, h \in Teams, bt \in {"avion", "bus"}, b \in ScenarioValues,
     at \in {"bus", "train"}, a \in ScenarioValues}

ScenarioNames == {"no_plane", "no_plane'"}

\* the thresholds a caller may pass: nothing in build_scenarios restricts
\* them, a negative one included
Thresholds == {-TimeUnit, TimeUnit, 2 * TimeUnit}

\* a dict of thresholds, as the sequence of its items in key order
LimitSets ==
  {l \in NonEmptySeqs([scenario : ScenarioNames, threshold : Thresholds], MaxScenarios) :
     \A a, b \in 1..Len(l) : a # b => l[a].scenario # l[b].scenario}

NoCall == [fn |-> "none", visiting |-> "", hosting |-> "", transport_type |-> ""]

---------------------------------------------------------------------------
(* The state machine *)

\* nothing asked of a service, nothing returned
NoResponse == Failure("none")
NoRoute == Raise("none")
NoStats == Raise("none")

TrainIdle ==
  /\ week_trains = <<>>
  /\ routing = <<>>
  /\ fastest_train = 0
  /\ stats = NoStats

\* _get_sncf_journeys not called: its parameters and locals
NoSncf ==
  [n_days |-> 0, max_retries |-> 0, day |-> 0, retries |-> 0, week_trains |-> <<>>,
   slept |-> <<>>]

LookupsIdle ==
  /\ airport_cache = EmptyDict
  /\ requested = <<>>
  /\ all_routes = <<>>
  /\ sncf = NoSncf
  /\ stadium_df = <<>>

ServicesIdle ==
  /\ response = NoResponse
  /\ flight_distance = 0
  /\ route = NoRoute
  /\ TrainIdle
  /\ LookupsIdle

Idle ==
  /\ call = NoCall
  /\ ret = Returned(0, 0, 0, {})
  /\ root = RootLocals0
  /\ scripts = ScriptsLocals0
  /\ final_df = <<>>
  /\ entries = <<>>
  /\ row_idx = 0
  /\ exc = "none"

InitResolve ==
  /\ prog = "resolve"
  /\ pc = "call"
  /\ \E m \in KnownModes, rich \in SeqsUpTo(ResolveRows, MaxTableRows),
        o1 \in PlainTables, o2 \in PlainTables :
       /\ emission_plane_data = IF m = "avion" THEN rich ELSE o1
       /\ emission_train_data = IF m = "train" THEN rich ELSE IF m = "avion" THEN o1 ELSE o2
       /\ emission_car_data = IF m = "bus" THEN rich ELSE o2
  /\ reconstructed_data = <<>>
  /\ df = <<>>
  /\ scenario_time_limits = <<>>
  /\ ServicesIdle
  /\ Idle

InitBatch ==
  /\ prog \in {"root", "scripts"}
  /\ pc = "baseline"
  /\ emission_plane_data \in BatchTables
  /\ emission_train_data \in BatchTables
  /\ emission_car_data \in BatchTables
  /\ reconstructed_data \in NonEmptySeqs(TravelRows, MaxRows)
  /\ df = <<>>
  /\ scenario_time_limits = <<>>
  /\ ServicesIdle
  /\ Idle

\* travel rows of one run of main whose rows are all processed
MaxAlignedRows == 2

\* the three durations of the stored route: every order of bus and train,
\* and a ground alternative under the first, between the two and over the
\* second threshold
AlignedTables ==
  {<<RouteRow("PSG", "OM", [emissions_kg_co2 |-> 2, travel_time_seconds |-> 2 * k * TimeUnit,
                            distance_km |-> 4])>> : k \in 0..2}

\* main of Calculate_emissions.py over a travel matrix of several rows
InitMain ==
  /\ prog = "root"
  /\ pc = "baseline"
  /\ emission_plane_data \in AlignedTables
  /\ emission_train_data \in AlignedTables
  /\ emission_car_data \in AlignedTables
  /\ reconstructed_data \in
       NonEmptySeqs({TravelRow("PSG", h, t) : h \in Teams, t \in Transports}, MaxAlignedRows)
  /\ df = <<>>
  /\ scenario_time_limits = <<>>
  /\ ServicesIdle
  /\ Idle

InitScenarios ==
  /\ prog = "scenarios"
  /\ pc = "build"
  /\ emission_plane_data = <<>>
  /\ emission_train_data = <<>>
  /\ emission_car_data = <<>>
  /\ reconstructed_data = <<>>
  /\ df \in NonEmptySeqs(DfRows, MaxDfRows)
  /\ scenario_time_limits \in LimitSets
  /\ ServicesIdle
  /\ Idle

\* no mode table, travel matrix or scenario frame: the services read none
NoInputs ==
  /\ emission_plane_data = <<>>
  /\ emission_train_data = <<>>
  /\ emission_car_data = <<>>
  /\ reconstructed_data = <<>>
  /\ df = <<>>
  /\ scenario_time_limits = <<>>

\* sections of the journey a direct call of _trip_stats is given
MaxSections == 3
\* journeys calculate_route finds for one pair of teams
MaxTrains == 3

\* the journeys the SNCF API may answer with: with and without a run of RER
\* sections, with waiting, with equal durations
TrainJourneys ==
  LET rerAB == Section("public_transport", RER, 900, 10000, 1000, "A", "B")
      rerBC == Section("public_transport", RER, 1200, 15000, 1000, "B", "C")
      tgvCD == Section("public_transport", TGV, 3600, 200000, 4000, "C", "D")
      tgvAD == Section("public_transport", TGV, 5400, 225000, 5000, "A", "D")
      boarding == Section("boarding", "", 120, 0, 0, "C", "C")
      waiting == Section("waiting", "", 600, 0, 0, "C", "C")
      crow_fly == Section("crow_fly", "", 240, 1000, 1000, "A", "A")
  IN  {Journey(s) : s \in {<<rerAB, rerBC, tgvCD>>, <<tgvAD>>, <<tgvCD>>,
                           <<crow_fly, tgvCD>>, <<boarding, tgvCD, waiting>>,
                           <<tgvAD, boarding>>}}

\* TrainTrajetService._trip_stats is about to be called on one journey
InitTripStats ==
  /\ prog = "trip_stats"
  /\ pc = "call"
  /\ response = NoResponse
  /\ flight_distance = 0
  /\ route = NoRoute
  /\ \E s \in SeqsUpTo(Sections, MaxSections) : week_trains = <<Journey(s)>>
  /\ routing = <<>>
  /\ fastest_train = 0
  /\ stats = NoStats
  /\ LookupsIdle
  /\ NoInputs
  /\ Idle

\* TrainTrajetService.calculate_route is about to be called
InitTrain ==
  /\ prog = "train"
  /\ pc = "collect"
  /\ response = NoResponse
  /\ flight_distance = 0
  /\ route = NoRoute
  /\ TrainIdle
  /\ LookupsIdle
  /\ NoInputs
  /\ Idle

\* calls of get_nearest_airport in one run
MaxCalls == 3

\* lines 33-49: the cache read from the cache file, keyed by the coordinates
\* of its rows
RECURSIVE load_airport_cache(_)
load_airport_cache(rows) ==
  IF rows = <<>>
  THEN EmptyDict
  ELSE DictSet(load_airport_cache(Tail(rows)),
               get_cache_key(Head(rows).latitude, Head(rows).longitude),
               Airport(Head(rows).name, Head(rows).latitude, Head(rows).longitude))

\* the cache a run starts with: no cache file, or a file of one airport
InitialCaches ==
  {EmptyDict, load_airport_cache(<<Airport(<<"Aéroport", "Paris", "Orly">>, 487262000, Meridian)>>)}

\* the coordinates looked up: those of the stadiums, those of a stored
\* airport, and a point that differs from a stadium in the 7th decimal
LookupCoords ==
  {StadiumCoords(StadiumTeams[k]) : k \in 1..Len(StadiumTeams)}
    \cup {Coords(488414004, Meridian), Coords(487262000, Meridian)}

\* what a Nearby Search request may meet
NearbyResponses ==
  {Failure(e) : e \in RequestErrors}
    \cup {Nearby("ZERO_RESULTS", <<>>), Nearby("OK", <<>>)}
    \cup {Nearby("OK", r) : r \in NonEmptySeqs(NearbyPlaces, 2)}

\* what a Directions request of a transfer may meet
TransferResponses ==
  {Failure("ConnectionError"), Body("ZERO_RESULTS", <<>>),
   Body("OK", <<Leg(0, 0)>>), Body("OK", <<Leg(25000, 1800)>>)}

\* PlaneTrajetService.get_nearest_airport is about to be called
InitAirport ==
  /\ prog = "airport"
  /\ pc = "call"
  /\ response = NoResponse
  /\ flight_distance = 0
  /\ route = NoRoute
  /\ TrainIdle
  /\ airport_cache \in InitialCaches
  /\ requested = <<>>
  /\ all_routes = <<>>
  /\ sncf = NoSncf
  /\ stadium_df = <<>>
  /\ NoInputs
  /\ Idle

\* PlaneTrajetService.calculate_route is about to be called
InitPlaneRoute ==
  /\ prog = "plane_route"
  /\ pc = "call"
  /\ response = NoResponse
  /\ flight_distance = 0
  /\ route = NoRoute
  /\ TrainIdle
  /\ airport_cache \in InitialCaches
  /\ requested = <<>>
  /\ all_routes = <<>>
  /\ sncf = NoSncf
  /\ stadium_df = <<>>
  /\ NoInputs
  /\ Idle

\* what the lookups of one pair may meet during process_all_routes
BatchRoadResponses == {Failure("ConnectionError"), Body("OK", <<Leg(25000, 1800)>>)}

BatchNearbyResponses ==
  {Failure("ConnectionError"),
   Nearby("OK", <<Place(<<"Aéroport", "Paris", "Orly">>, 487262000, Meridian)>>),
   Nearby("OK", <<Place(<<"Marseille", "AIRPORT">>, 434393000, Meridian)>>)}

BatchJourneys ==
  {<<>>, <<Journey(<<Section("public_transport", TGV, 5400, 225000, 5000, "A", "D")>>)>>}

\* process_all_routes of one of the three services is about to be called,
\* on a stadium file of two teams or more
InitProcess ==
  /\ prog \in {"car_routes", "plane_routes", "train_routes"}
  /\ pc = "routes"
  /\ response = NoResponse
  /\ flight_distance = 0
  /\ route = NoRoute
  /\ TrainIdle
  /\ airport_cache = EmptyDict
  /\ requested = <<>>
  /\ all_routes = <<>>
  /\ sncf = NoSncf
  /\ stadium_df \in {SubSeq(StadiumTeams, 1, n) : n \in 2..Len(StadiumTeams)}
  /\ NoInputs
  /\ Idle

\* days one call of _get_sncf_journeys queries
MaxDays == 2
\* retries allowed to one call; 3 is the default
MaxRetries == 3

\* what a request for a day may meet: an error, no journey, one journey
SncfAnswers(day) ==
  {SncfFailure(e) : e \in SncfErrors}
    \cup {SncfAnswer(<<>>), SncfAnswer(<<[departure_day |-> day]>>)}

\* TrainTrajetService._get_sncf_journeys is about to be called
InitSncf ==
  /\ prog = "sncf"
  /\ pc = "query"
  /\ response = NoResponse
  /\ flight_distance = 0
  /\ route = NoRoute
  /\ TrainIdle
  /\ airport_cache = EmptyDict
  /\ requested = <<>>
  /\ all_routes = <<>>
  /\ \E n_days \in 0..MaxDays, max_retries \in 0..MaxRetries :
       sncf = [NoSncf EXCEPT !.n_days = n_days, !.max_retries = max_retries]
  /\ stadium_df = <<>>
  /\ NoInputs
  /\ Idle

\* flight distances of the plane service's runs: 0 .. MaxFlightSteps steps
\* of 10 km
MaxFlightSteps == 100

\* CarTrajetService.calculate_route is about to be called
InitCar ==
  /\ prog = "car"
  /\ pc = "call"
  /\ response \in Responses
  /\ flight_distance = 0
  /\ route = NoRoute
  /\ TrainIdle
  /\ LookupsIdle
  /\ NoInputs
  /\ Idle

\* PlaneTrajetService.calculate_flight_time is about to be called
InitPlane ==
  /\ prog = "plane"
  /\ pc = "call"
  /\ response = NoResponse
  /\ flight_distance \in {10 * k : k \in 0..MaxFlightSteps}
  /\ route = NoRoute
  /\ TrainIdle
  /\ LookupsIdle
  /\ NoInputs
  /\ Idle

Init ==
  InitResolve \/ InitBatch \/ InitMain \/ InitScenarios \/ InitCar \/ InitPlane \/ InitTripStats
    \/ InitTrain \/ InitAirport \/ InitPlaneRoute \/ InitProcess \/ InitSncf

inputs == <<prog, emission_plane_data, emission_train_data, emission_car_data,
            reconstructed_data, df, scenario_time_limits>>

\* a direct call of get_emissions_and_time of Calculate_emissions.py
CallRoot ==
  /\ prog = "resolve" /\ pc = "call"
  /\ pc' = "returned"
  /\ \E v \in Teams, h \in Teams, t \in CallTokens :
       /\ call' = [fn |-> "root", visiting |-> v, hosting |-> h, transport_type |-> t]
       /\ ret' = get_emissions_and_time(v, h, t)
  /\ UNCHANGED <<inputs, services, row_idx, exc, root, scripts, final_df, entries>>

\* a direct call of get_emissions_and_time of scripts/Calculate_emissions.py
CallScripts ==
  /\ prog = "resolve" /\ pc = "call"
  /\ pc' = "returned"
  /\ \E v \in Teams, h \in Teams, t \in CallTokens :
       /\ call' = [fn |-> "scripts", visiting |-> v, hosting |-> h, transport_type |-> t]
       /\ ret' = scripts_get_emissions_and_time(v, h, t)
  /\ UNCHANGED <<inputs, services, row_idx, exc, root, scripts, final_df, entries>>

\* where a loop over the rows of data stands after one more iteration
Advance(step, data, after) ==
  IF step.exc # "none"
  THEN /\ pc' = "raised"
       /\ exc' = step.exc
       /\ row_idx' = row_idx
  ELSE /\ exc' = exc
       /\ IF row_idx + 1 = Len(data)
          THEN pc' = after /\ row_idx' = 0
          ELSE pc' = pc /\ row_idx' = row_idx + 1

RootBaseline ==
  /\ prog = "root" /\ pc = "baseline" /\ row_idx < Len(reconstructed_data)
  /\ LET step == RootBaselineRow(root, reconstructed_data[row_idx + 1])
     IN  /\ root' = step.locals
         /\ Advance(step, reconstructed_data, "alternative")
  /\ UNCHANGED <<inputs, services, call, ret, scripts, final_df, entries>>

RootAlternative ==
  /\ prog = "root" /\ pc = "alternative" /\ row_idx < Len(reconstructed_data)
  /\ LET step == RootAlternativeRow(root, reconstructed_data[row_idx + 1])
     IN  /\ root' = step.locals
         /\ Advance(step, reconstructed_data, "frame")
  /\ UNCHANGED <<inputs, services, call, ret, scripts, final_df, entries>>

\* lines 357-387: the frame is built and written
RootFinal ==
  /\ prog = "root" /\ pc = "frame"
  /\ IF RootFrameFits(root)
     THEN final_df' = RootFrame(root) /\ pc' = "done" /\ exc' = exc
     ELSE final_df' = final_df /\ pc' = "raised" /\ exc' = "ValueError"
  /\ UNCHANGED <<inputs, services, call, ret, root, scripts, row_idx, entries>>

ScriptsBaseline ==
  /\ prog = "scripts" /\ pc = "baseline" /\ row_idx < Len(reconstructed_data)
  /\ LET step == ScriptsBaselineRow(scripts, reconstructed_data[row_idx + 1])
     IN  /\ scripts' = step.locals
         /\ Advance(step, reconstructed_data, "alternative")
  /\ UNCHANGED <<inputs, services, call, ret, root, final_df, entries>>

ScriptsAlternative ==
  /\ prog = "scripts" /\ pc = "alternative" /\ row_idx < Len(reconstructed_data)
  /\ LET step == ScriptsAlternativeRow(scripts, reconstructed_data[row_idx + 1])
     IN  /\ scripts' = step.locals
         /\ Advance(step, reconstructed_data, "frame")
  /\ UNCHANGED <<inputs, services, call, ret, root, final_df, entries>>

\* lines 122-132
ScriptsFinal ==
  /\ prog = "scripts" /\ pc = "frame"
  /\ final_df' = ScriptsFrame(scripts)
  /\ pc' = "done"
  /\ UNCHANGED <<inputs, services, call, ret, root, scripts, row_idx, exc, entries>>

\* build_scenarios, one row of the frame at a time; it returns entries
\* after the last row
BuildScenarios ==
  /\ prog = "scenarios" /\ pc = "build" /\ row_idx < Len(df)
  /\ LET step == BuildRow(entries, df[row_idx + 1], scenario_time_limits)
     IN  /\ entries' = step.locals
         /\ Advance(step, df, "done")
  /\ UNCHANGED <<inputs, services, call, ret, root, scripts, final_df>>

\* a call of CarTrajetService.calculate_route
CarCalculateRoute ==
  /\ prog = "car" /\ pc = "call"
  /\ pc' = "returned"
  /\ \E departure \in Teams, arrival \in Teams :
       /\ call' = [fn |-> "car", departure |-> departure, arrival |-> arrival]
       /\ route' = CarTrajetService_calculate_route(departure, arrival, response)
  /\ UNCHANGED <<inputs, lookups, response, flight_distance, week_trains, routing, fastest_train,
                 stats, row_idx, exc, ret, root, scripts, final_df, entries>>

\* a call of PlaneTrajetService.calculate_flight_time
PlaneFlightTime ==
  /\ prog = "plane" /\ pc = "call"
  /\ pc' = "returned"
  /\ route' = Return(calculate_flight_time(flight_distance))
  /\ UNCHANGED <<inputs, lookups, response, flight_distance, week_trains, routing, fastest_train,
                 stats, row_idx, exc, call, ret, root, scripts, final_df, entries>>

\* a call of TrainTrajetService._trip_stats
TripStats ==
  /\ prog = "trip_stats" /\ pc = "call"
  /\ pc' = "returned"
  /\ \E compute_using_google \in BOOLEAN :
       /\ stats' = trip_stats(week_trains[1].sections, compute_using_google)
       /\ routing' = <<Aggregation(1, compute_using_google, stats')>>
  /\ UNCHANGED <<inputs, lookups, response, flight_distance, route, week_trains, fastest_train,
                 row_idx, exc, call, ret, root, scripts, final_df, entries>>

\* calculate_route, lines 424-454: the journeys of every pair of stop areas
TrainCollect ==
  /\ prog = "train" /\ pc = "collect"
  /\ pc' = "compare"
  /\ \E departure \in Teams, arrival \in Teams :
       call' = [fn |-> "train", departure |-> departure, arrival |-> arrival]
  /\ week_trains' \in SeqsUpTo(TrainJourneys, MaxTrains)
  /\ UNCHANGED <<inputs, lookups, response, flight_distance, route, routing, fastest_train, stats,
                 row_idx, exc, ret, root, scripts, final_df, entries>>

\* calculate_route, lines 455-465: no journey found
TrainNoTrains ==
  /\ prog = "train" /\ pc = "compare"
  /\ week_trains = <<>>
  /\ route' = TrainRouteData(call.departure, call.arrival)
  /\ pc' = IF route'.exc = "none" THEN "returned" ELSE "raised"
  /\ UNCHANGED <<inputs, lookups, response, flight_distance, week_trains, routing, fastest_train,
                 stats, row_idx, exc, call, ret, root, scripts, final_df, entries>>

\* calculate_route, lines 468-473: min() evaluates its key on the next journey
TrainCheapEvaluation ==
  /\ prog = "train" /\ pc = "compare"
  /\ Len(routing) < Len(week_trains)
  /\ LET k == Len(routing) + 1
         cheap == trip_stats(week_trains[k].sections, FALSE)
     IN  /\ routing' = Append(routing, Aggregation(k, FALSE, cheap))
         /\ IF cheap.exc # "none"
            THEN /\ route' = Raise(cheap.exc)
                 /\ pc' = "raised"
            ELSE /\ route' = route
                 /\ pc' = IF k = Len(week_trains) THEN "recompute" ELSE "compare"
  /\ UNCHANGED <<inputs, lookups, response, flight_distance, week_trains, fastest_train, stats,
                 row_idx, exc, call, ret, root, scripts, final_df, entries>>

\* calculate_route, lines 468-476: min() returns, and _trip_stats runs on the
\* journey it returned with compute_using_google
TrainExpensiveEvaluation ==
  /\ prog = "train" /\ pc = "recompute"
  /\ LET k == FirstMinimum([m \in 1..Len(routing) |-> routing[m].outcome.value[1].duration_s])
         fastest_train_route == trip_stats(week_trains[k].sections, TRUE)
     IN  /\ fastest_train' = k
         /\ stats' = fastest_train_route
         /\ routing' = Append(routing, Aggregation(k, TRUE, fastest_train_route))
         /\ IF fastest_train_route.exc # "none"
            THEN /\ route' = Raise(fastest_train_route.exc)
                 /\ pc' = "raised"
            ELSE /\ route' = route
                 /\ pc' = "car_part"
  /\ UNCHANGED <<inputs, lookups, response, flight_distance, week_trains, row_idx, exc, call, ret,
                 root, scripts, final_df, entries>>

\* calculate_route, lines 478-500: the car part and the record
TrainCarPart ==
  /\ prog = "train" /\ pc = "car_part"
  /\ LET car_route == calculate_car_part(call.departure, call.arrival)
     IN  route' = IF car_route.exc # "none"
                  THEN Raise(car_route.exc)
                  ELSE TrainRouteData(call.departure, call.arrival)
  /\ pc' = IF route'.exc = "none" THEN "returned" ELSE "raised"
  /\ UNCHANGED <<inputs, lookups, response, flight_distance, week_trains, routing, fastest_train,
                 stats, row_idx, exc, call, ret, root, scripts, final_df, entries>>

\* the number of calls of get_nearest_airport made so far
CallCount == IF call = NoCall THEN 0 ELSE call.n

\* a call of PlaneTrajetService.get_nearest_airport
GetNearestAirport ==
  /\ prog = "airport" /\ pc = "call"
  /\ CallCount < MaxCalls
  /\ \E coords \in LookupCoords, resp \in NearbyResponses :
       LET out == get_nearest_airport(airport_cache, coords[1], coords[2], resp)
       IN  /\ call' = [fn |-> "get_nearest_airport", lat |-> coords[1], lon |-> coords[2],
                       n |-> CallCount + 1]
           /\ route' = Return(out.value)
           /\ airport_cache' = out.cache
           /\ requested' = requested \o out.requests
  /\ UNCHANGED <<inputs, response, flight_distance, week_trains, routing, fastest_train,
                 stats, all_routes, sncf, stadium_df, pc, row_idx, exc, ret, root, scripts,
                 final_df, entries>>

\* a call of PlaneTrajetService.calculate_route
PlaneCalculateRoute ==
  /\ prog = "plane_route" /\ pc = "call"
  /\ pc' = "returned"
  /\ \E d \in 1..Len(StadiumTeams), a \in 1..Len(StadiumTeams) :
       \E nearby_dep \in NearbyResponses, nearby_arr \in NearbyResponses :
         \E road_dep \in TransferResponses, road_arr \in TransferResponses :
           LET departure == StadiumTeams[d]
               arrival == StadiumTeams[a]
               out == PlaneTrajetService_calculate_route(departure, arrival, StadiumCoords(departure), StadiumCoords(arrival), airport_cache, nearby_dep, nearby_arr, road_dep, road_arr)
           IN  /\ call' = [fn |-> "plane", departure |-> departure, arrival |-> arrival,
                           road_dep |-> road_dep, road_arr |-> road_arr]
               /\ route' = out.value
               /\ airport_cache' = out.cache
               /\ requested' = requested \o out.requests
  /\ UNCHANGED <<inputs, response, flight_distance, week_trains, routing, fastest_train,
                 stats, all_routes, sncf, stadium_df, row_idx, exc, ret, root, scripts, final_df,
                 entries>>

\* process_all_routes, lines 317-330 for the next pair of stadiums: the call
\* of calculate_route of the service, and the record kept when there is one
ProcessAfter(outcome) ==
  /\ route' = outcome
  /\ row_idx' = row_idx + 1
  /\ IF outcome.exc # "none"
     THEN /\ pc' = "raised"
          /\ all_routes' = all_routes
     ELSE /\ pc' = IF row_idx + 1 = Len(StadiumPairs(stadium_df)) THEN "returned" ELSE "routes"
          /\ all_routes' = IF outcome.value # None
                           THEN Append(all_routes, outcome.value[1])
                           ELSE all_routes

ProcessCarRoute ==
  /\ prog = "car_routes" /\ pc = "routes"
  /\ LET pair == StadiumPairs(stadium_df)[row_idx + 1]
         departure == stadium_df[pair[1]]
         arrival == stadium_df[pair[2]]
     IN  \E resp \in BatchRoadResponses :
           /\ call' = [fn |-> "car", departure |-> departure, arrival |-> arrival]
           /\ ProcessAfter(CarTrajetService_calculate_route(departure, arrival, resp))
           /\ requested'
                = Append(requested,
                         DirectionsRequest(StadiumCoords(departure), StadiumCoords(arrival)))
  /\ UNCHANGED <<inputs, response, flight_distance, week_trains, routing, fastest_train,
                 stats, airport_cache, sncf, stadium_df, exc, ret, root, scripts, final_df,
                 entries>>

ProcessPlaneRoute ==
  /\ prog = "plane_routes" /\ pc = "routes"
  /\ LET pair == StadiumPairs(stadium_df)[row_idx + 1]
         departure == stadium_df[pair[1]]
         arrival == stadium_df[pair[2]]
     IN  \E nearby_dep \in BatchNearbyResponses, nearby_arr \in BatchNearbyResponses :
           \E road_dep \in BatchRoadResponses, road_arr \in BatchRoadResponses :
             LET out == PlaneTrajetService_calculate_route(departure, arrival, StadiumCoords(departure), StadiumCoords(arrival), airport_cache, nearby_dep, nearby_arr, road_dep, road_arr)
             IN  /\ call' = [fn |-> "plane", departure |-> departure, arrival |-> arrival,
                             road_dep |-> road_dep, road_arr |-> road_arr]
                 /\ ProcessAfter(out.value)
                 /\ airport_cache' = out.cache
                 /\ requested' = requested \o out.requests
  /\ UNCHANGED <<inputs, response, flight_distance, week_trains, routing, fastest_train,
                 stats, sncf, stadium_df, exc, ret, root, scripts, final_df, entries>>

ProcessTrainRoute ==
  /\ prog = "train_routes" /\ pc = "routes"
  /\ LET pair == StadiumPairs(stadium_df)[row_idx + 1]
         departure == stadium_df[pair[1]]
         arrival == stadium_df[pair[2]]
     IN  \E journeys \in BatchJourneys :
           /\ call' = [fn |-> "train", departure |-> departure, arrival |-> arrival]
           /\ week_trains' = journeys
           /\ ProcessAfter(TrainTrajetService_calculate_route(departure, arrival, journeys))
  /\ UNCHANGED <<inputs, response, flight_distance, routing, fastest_train, stats,
                 airport_cache, requested, sncf, stadium_df, exc, ret, root, scripts,
                 final_df, entries>>

NextProcess ==
  \/ ProcessCarRoute
  \/ ProcessPlaneRoute
  \/ ProcessTrainRoute

\* _get_sncf_journeys, lines 251-291: one request for the current day and
\* what follows it, the wait before a retry or the move to the next day
SncfAttempt ==
  /\ prog = "sncf" /\ pc = "query"
  /\ sncf.day < sncf.n_days
  /\ sncf.retries <= sncf.max_retries
  /\ \E answer \in SncfAnswers(sncf.day) :
       /\ requested' = Append(requested, SncfRequest(sncf.day, answer))
       /\ sncf' = sncf_after_attempt(sncf, answer)
  /\ UNCHANGED <<inputs, response, flight_distance, route, week_trains, routing,
                 fastest_train, stats, airport_cache, all_routes, stadium_df, pc, row_idx,
                 exc, call, ret, root, scripts, final_df, entries>>

\* _get_sncf_journeys, lines 242 and 292: every day queried, the journeys
\* are returned
SncfReturn ==
  /\ prog = "sncf" /\ pc = "query"
  /\ sncf.day >= sncf.n_days
  /\ pc' = "returned"
  /\ week_trains' = sncf.week_trains
  /\ UNCHANGED <<inputs, lookups, response, flight_distance, route, routing, fastest_train,
                 stats, row_idx, exc, call, ret, root, scripts, final_df, entries>>

NextSncf ==
  \/ SncfAttempt
  \/ SncfReturn

NextTrain ==
  \/ TrainCollect
  \/ TrainNoTrains
  \/ TrainCheapEvaluation
  \/ TrainExpensiveEvaluation
  \/ TrainCarPart

NextResolve ==
  \/ CallRoot
  \/ CallScripts

NextBatch ==
  \/ RootBaseline
  \/ RootAlternative
  \/ RootFinal
  \/ ScriptsBaseline
  \/ ScriptsAlternative
  \/ ScriptsFinal

Next ==
  \/ CallRoot
  \/ CallScripts
  \/ RootBaseline
  \/ RootAlternative
  \/ RootFinal
  \/ ScriptsBaseline
  \/ ScriptsAlternative
  \/ ScriptsFinal
  \/ BuildScenarios
  \/ CarCalculateRoute
  \/ PlaneFlightTime
  \/ TripStats
  \/ TrainCollect
  \/ TrainNoTrains
  \/ TrainCheapEvaluation
  \/ TrainExpensiveEvaluation
  \/ TrainCarPart
  \/ GetNearestAirport
  \/ PlaneCalculateRoute
  \/ ProcessCarRoute
  \/ ProcessPlaneRoute
  \/ ProcessTrainRoute
  \/ SncfAttempt
  \/ SncfReturn

\* every entry point
Spec == Init /\ [][Next]_vars

\* direct calls of the resolver
SpecResolve == InitResolve /\ [][NextResolve]_vars

\* main of Calculate_emissions.py
NextMain == RootBaseline \/ RootAlternative \/ RootFinal

SpecMain == InitMain /\ [][NextMain]_vars

\* the two batch programs
SpecBatch == InitBatch /\ [][NextBatch]_vars

\* the scenario generator
SpecScenarios == InitScenarios /\ [][BuildScenarios]_vars

\* the car service
SpecCar == InitCar /\ [][CarCalculateRoute]_vars

\* the flight time of the plane service
SpecPlane == InitPlane /\ [][PlaneFlightTime]_vars

\* the aggregation of one journey by the train service
SpecTripStats == InitTripStats /\ [][TripStats]_vars

\* direct calls of the airport lookup of the plane service
SpecAirport == InitAirport /\ [][GetNearestAirport]_vars

\* direct calls of calculate_route of the plane service
SpecPlaneRoute == InitPlaneRoute /\ [][PlaneCalculateRoute]_vars

\* the journey query of the train service; the code runs on until it
\* returns: a request ends by its answer or its timeout, a wait by its delay
SpecSncf == InitSncf /\ [][NextSncf]_vars /\ WF_vars(NextSncf)

\* process_all_routes of the three services
SpecProcess == InitProcess /\ [][NextProcess]_vars

NextCalculators ==
  \/ CarCalculateRoute
  \/ PlaneCalculateRoute
  \/ NextTrain

\* calculate_route of the three services
SpecCalculators == (InitCar \/ InitPlaneRoute \/ InitTrain) /\ [][NextCalculators]_vars

\* the train service
SpecTrain == InitTrain /\ [][NextTrain]_vars

---------------------------------------------------------------------------
(* Properties of the resolver *)

\* the rows of the table of mode m stored for the pair {a, b}, either way round
StoredEitherWay(m, a, b) ==
  SelectSeq(Dataset(m),
            LAMBDA r : \/ r.departure = a /\ r.arrival = b
                       \/ r.departure = b /\ r.arrival = a)

\* the function a call names, applied to other arguments
Resolve(fn, a, b, m) ==
  IF fn = "root" THEN get_emissions_and_time(a, b, m)
  ELSE scripts_get_emissions_and_time(a, b, m)

\* C1.  Route resolution is direction-agnostic: when the table of a known
\* mode stores exactly one row for the pair, in one direction or the other,
\* a call returns that row's emissions and travel time (and distance, which
\* only Calculate_emissions.py returns), and the call with the two teams
\* exchanged returns the same.
C1_DirectionAgnostic ==
  (prog = "resolve" /\ call.fn # "none" /\ call.transport_type \in KnownModes) =>
    LET stored == StoredEitherWay(call.transport_type, call.visiting, call.hosting)
    IN  Len(stored) = 1 =>
          /\ ret.exc = "none"
          /\ ret.emission_in_kg = stored[1].emissions_kg_co2
          /\ ret.time_in_sec = stored[1].travel_time_seconds
          /\ call.fn = "root" => ret.distance_km = stored[1].distance_km
          /\ Resolve(call.fn, call.hosting, call.visiting, call.transport_type) = ret

\* C1 happens: a pair stored only the other way round is resolved by the
\* fallback to a row with emissions.
C1_Witness ==
  /\ prog = "resolve" /\ call.fn = "root" /\ call.transport_type \in KnownModes
  /\ call.visiting # call.hosting
  /\ Len(StoredEitherWay(call.transport_type, call.visiting, call.hosting)) = 1
  /\ Subset(Dataset(call.transport_type), call.visiting, call.hosting) = <<>>
  /\ ret.exc = "none" /\ ret.emission_in_kg > 0

\* C2.  A known mode whose table holds no row for the pair in either
\* direction resolves to the zero sentinel (0 emissions, 0 time, 0 distance)
\* and signals no failure; a batch run is never stopped by such a pair.
C2_MissingRouteIsZeroSentinel ==
  /\ (/\ prog = "resolve" /\ call.fn # "none" /\ call.transport_type \in KnownModes
      /\ StoredEitherWay(call.transport_type, call.visiting, call.hosting) = <<>>) =>
       /\ ret.exc = "none"
       /\ ret.emission_in_kg = 0 /\ ret.time_in_sec = 0 /\ ret.distance_km = 0
  /\ prog \in {"root", "scripts"} => pc # "raised" /\ exc = "none"

\* C3.  A token other than avion, bus and train resolves to the all-zero
\* sentinel for every pair, raises nothing and reads no mode table.
C3_UnknownTokenIsZeroSentinel ==
  (prog = "resolve" /\ call.fn # "none" /\ call.transport_type \notin KnownModes) =>
    /\ ret.exc = "none"
    /\ ret.emission_in_kg = 0 /\ ret.time_in_sec = 0 /\ ret.distance_km = 0
    /\ ret.read = {}

\* C3 happens: an unknown token, for a pair that the car table stores and
\* for a pair that no table stores.
C3_Witness ==
  /\ prog = "resolve" /\ call.fn = "root" /\ call.transport_type = "Bus"
  /\ call.visiting # call.hosting
  /\ emission_car_data # <<>> /\ Subset(emission_car_data, "PSG", "OM") # <<>>
  /\ emission_train_data = <<>> /\ emission_plane_data = <<>>
  /\ ret = Returned(0, 0, 0, {})

---------------------------------------------------------------------------
(* Properties of the batch programs *)

MixedTrips == {"Aller en bus\nRetour en avion", "Aller en train\nRetour en bus"}

\* the travel rows whose baseline (first loop) is complete
RootBaselineDone == 1..(Len(root.list_emissions) \div 2)
ScriptsBaselineDone == 1..Len(scripts.list_emissions)

\* the travel rows whose alternative (second loop) is complete
RootAlternativeDone == 1..(Len(root.list_alternative_emissions) \div 2)
ScriptsAlternativeDone == 1..Len(scripts.list_alternative_emissions)

Visiting(n) == reconstructed_data[n]["Visiting team"]
Hosting(n) == reconstructed_data[n]["Host team"]
Transport(n) == reconstructed_data[n]["Transport"]

\* the stored record of a mode for the pair of travel row n
Record(n, mode) == get_emissions_and_time(Visiting(n), Hosting(n), mode)

\* C4.  Empty-leg correction of the baseline: a single-mode travel row with
\* visiting # hosting whose mode is not the bus reports, over its round
\* trip, the emissions of its mode plus the bus emissions of the pair,
\* added once; a bus row, and a row with visiting = hosting, reports the
\* emissions of its mode alone.
C4_EmptyLegAddedOnce ==
  /\ prog = "root" =>
       \A n \in RootBaselineDone :
         Transport(n) \notin MixedTrips =>
           root.list_emissions[2 * n - 1] + root.list_emissions[2 * n] =
             IF Visiting(n) # Hosting(n) /\ Lower(Transport(n)) # "bus"
             THEN Record(n, Lower(Transport(n))).emission_in_kg
                    + Record(n, "bus").emission_in_kg
             ELSE Record(n, Lower(Transport(n))).emission_in_kg
  /\ prog = "scripts" =>
       \A n \in ScriptsBaselineDone :
         scripts.list_emissions[n] =
           IF Visiting(n) # Hosting(n) /\ Lower(Transport(n)) # "bus"
           THEN Record(n, Lower(Transport(n))).emission_in_kg
                  + Record(n, "bus").emission_in_kg
           ELSE Record(n, Lower(Transport(n))).emission_in_kg

\* the two leg rows of travel row n in the lists of one variant
\* ("alternative", "alternative2", "alternative3") both hold half of x
Reports(variant, n, x) ==
  \A k \in {2 * n - 1, 2 * n} :
    /\ 2 * root["list_" \o variant \o "_emissions"][k] = x.emissions
    /\ 2 * root["list_" \o variant \o "_emissions_wo_bus"][k] = x.emissions_wo_bus
    /\ 2 * root["list_" \o variant \o "_time"][k] = x.time
    /\ 2 * root["list_" \o variant \o "_distance"][k] = x.distance

\* the ground alternative of travel row n over the round trip: the bus when
\* strictly faster than the train, else the train with the empty bus
Ground(n) ==
  IF Record(n, "bus").time_in_sec < Record(n, "train").time_in_sec
  THEN Option(Record(n, "bus").emission_in_kg, Record(n, "bus").emission_in_kg,
              Record(n, "bus").time_in_sec, Record(n, "bus").distance_km)
  ELSE Option(Record(n, "train").emission_in_kg + Record(n, "bus").emission_in_kg,
              Record(n, "train").emission_in_kg,
              Record(n, "train").time_in_sec, Record(n, "train").distance_km)

\* the plane with the empty bus, over the round trip
Plane(n) ==
  Option(Record(n, "avion").emission_in_kg + Record(n, "bus").emission_in_kg,
         Record(n, "avion").emission_in_kg,
         Record(n, "avion").time_in_sec, Record(n, "avion").distance_km)

\* C5.  Two-branch rule of the alternative: for visiting # hosting, a bus
\* strictly faster than the train gives the bus emissions, the same value
\* without the empty leg, and the bus duration; otherwise, equal durations
\* included, the emissions are train + bus, without the empty leg the train
\* alone, with the train's duration and distance.  Calculate_emissions.py
\* writes half of each value in each of the two leg rows; the scripts
\* version writes the values themselves.
C5_TwoBranchRule ==
  /\ prog = "root" =>
       \A n \in RootAlternativeDone :
         Visiting(n) # Hosting(n) => Reports("alternative", n, Ground(n))
  /\ prog = "scripts" =>
       \A n \in ScriptsAlternativeDone :
         Visiting(n) # Hosting(n) =>
           /\ scripts.list_alternative_emissions[n] = Ground(n).emissions
           /\ scripts.list_alternative_emissions_wo_bus[n] = Ground(n).emissions_wo_bus
           /\ scripts.list_alternative_time[n] = Ground(n).time

\* C5 happens: a pair whose bus and train take equally long, resolved to
\* the train with the empty bus.
C5_Witness ==
  /\ prog = "root" /\ pc = "done"
  /\ Visiting(1) # Hosting(1)
  /\ Record(1, "bus").time_in_sec = Record(1, "train").time_in_sec
  /\ Record(1, "bus").emission_in_kg > 0 /\ Record(1, "train").emission_in_kg > 0
  /\ 2 * root.list_alternative_emissions[1] =
       Record(1, "train").emission_in_kg + Record(1, "bus").emission_in_kg

\* the lists of the variant with a threshold of th hours
VariantOf(th) == IF th = time_scenario2 THEN "alternative2" ELSE "alternative3"

\* C7.  Thresholded no-plane variants: for th in {3, 6} and visiting #
\* hosting, the variant reports the ground alternative G when
\* G.duration - 2 * th * 3600 < plane duration, and otherwise the plane
\* option (plane + bus emissions, plane alone without the empty leg, the
\* plane's time and distance); the variant without threshold reports G.
C7_ThresholdedVariants ==
  prog = "root" =>
    \A n \in RootAlternativeDone :
      Visiting(n) # Hosting(n) =>
        /\ Reports("alternative", n, Ground(n))
        /\ \A th \in {time_scenario2, time_scenario3} :
             IF Ground(n).time - 2 * th * 3600 < Record(n, "avion").time_in_sec
             THEN Reports(VariantOf(th), n, Ground(n))
             ELSE Reports(VariantOf(th), n, Plane(n))

\* C7 happens: strictly between the two thresholds, the 3-hour variant
\* reports the plane and the 6-hour variant the train.
C7_Witness ==
  /\ prog = "root" /\ pc = "done"
  /\ Visiting(1) # Hosting(1)
  /\ Record(1, "train").time_in_sec <= Record(1, "bus").time_in_sec
  /\ Ground(1).time - 2 * time_scenario2 * 3600 > Record(1, "avion").time_in_sec
  /\ Ground(1).time - 2 * time_scenario3 * 3600 < Record(1, "avion").time_in_sec
  /\ Ground(1) # Plane(1)
  /\ Reports("alternative2", 1, Plane(1))
  /\ Reports("alternative3", 1, Ground(1))

\* C8 as stated.  On a tie, G.duration - 2 * th * 3600 = plane duration,
\* the variant keeps the ground alternative.
C8_TiesFavorGround ==
  prog = "root" =>
    \A n \in RootAlternativeDone :
      Visiting(n) # Hosting(n) =>
        \A th \in {time_scenario2, time_scenario3} :
          Ground(n).time - 2 * th * 3600 = Record(n, "avion").time_in_sec =>
            Reports(VariantOf(th), n, Ground(n))

\* C8 as the program has it.  The test is strict: on a tie the variant
\* reports the plane option, not the ground alternative.
C8_TiesFavorPlane ==
  prog = "root" =>
    \A n \in RootAlternativeDone :
      Visiting(n) # Hosting(n) =>
        \A th \in {time_scenario2, time_scenario3} :
          Ground(n).time - 2 * th * 3600 = Record(n, "avion").time_in_sec =>
            /\ Reports(VariantOf(th), n, Plane(n))
            /\ ~Reports(VariantOf(th), n, Ground(n))

\* C8 happens: the bus takes exactly 6 hours more than the plane.
C8_Witness ==
  /\ prog = "root" /\ pc = "done"
  /\ Visiting(1) # Hosting(1)
  /\ Record(1, "bus").time_in_sec < Record(1, "train").time_in_sec
  /\ Record(1, "bus").time_in_sec - 2 * time_scenario2 * 3600
       = Record(1, "avion").time_in_sec
  /\ Reports("alternative2", 1, Plane(1))
  /\ Reports("alternative3", 1, Ground(1))

\* the columns of final_df that describe an alternative, in all variants
AlternativeColumns == {RootColumns[k][1] : k \in 9..Len(RootColumns)}

ScriptsAlternativeColumns ==
  {"alternative_emissions_kg_co2", "alternative_emissions_kg_co2_wo_empty_bus",
   "alternative_travel_time_seconds"}

\* C6.  Self-pair zero law: a travel row with visiting = hosting leaves the
\* second loop with every alternative field of every variant equal to 0,
\* and is in the frame main writes, with these zeros; no row of the output
\* of build_scenarios has visiting_team = hosting_team, whatever the
\* thresholds.
C6_SelfPairZeroLaw ==
  /\ prog = "root" =>
       \A n \in RootAlternativeDone :
         Visiting(n) = Hosting(n) =>
           /\ \A variant \in {"alternative", "alternative2", "alternative3"} :
                Reports(variant, n, ZeroOption)
           /\ pc = "done" =>
                \A k \in {2 * n - 1, 2 * n} :
                  /\ k \in DOMAIN final_df
                  /\ final_df[k]["Visiting team"] = Visiting(n)
                  /\ final_df[k]["Hosting team"] = Hosting(n)
                  /\ \A c \in AlternativeColumns : final_df[k][c] = 0
  /\ prog = "scripts" =>
       \A n \in ScriptsAlternativeDone :
         Visiting(n) = Hosting(n) =>
           /\ scripts.list_alternative_emissions[n] = 0
           /\ scripts.list_alternative_emissions_wo_bus[n] = 0
           /\ scripts.list_alternative_time[n] = 0
           /\ pc = "done" =>
                /\ n \in DOMAIN final_df
                /\ final_df[n]["Visiting team"] = Visiting(n)
                /\ final_df[n]["Host team"] = Hosting(n)
                /\ \A c \in ScriptsAlternativeColumns : final_df[n][c] = 0
  /\ prog = "scenarios" =>
       \A k \in 1..Len(entries) : entries[k].visiting_team # entries[k].hosting_team

\* C6 happens: main has written the two zero-filled leg rows of a row with
\* visiting = hosting.
C6_Witness ==
  /\ prog = "root" /\ pc = "done"
  /\ Visiting(1) = Hosting(1)
  /\ Len(final_df) = 2
  /\ \A k \in 1..2, c \in AlternativeColumns : final_df[k][c] = 0

---------------------------------------------------------------------------
(* Properties of utils_scenarios.py *)

\* the thresholds of the run, by position
Threshold(k) == scenario_time_limits[k].threshold

\* C9.  Scenario selection rule: for every row and threshold select_option
\* sets alternative_selected exactly when alternative_travel_time_seconds <
\* threshold (equality selects the baseline) and returns emissions,
\* emissions without empty bus, travel time and transport type of one
\* family, the alternative_* fields when selected and the baseline fields
\* otherwise; and it succeeds on every row of the frame main writes.
C9_SelectionRule ==
  /\ prog = "scenarios" =>
       \A n \in 1..Len(df), k \in 1..Len(scenario_time_limits) :
         LET row == df[n]
             sel == select_option(row, Threshold(k))
         IN  /\ sel.exc = "none"
             /\ sel.alt_sel <=> row["alternative_travel_time_seconds"] < Threshold(k)
             /\ sel.alt_sel =>
                  /\ sel.emissions = row["alternative_emissions_kg_co2"]
                  /\ sel.emissions_wo_empty_bus =
                       row["alternative_emissions_kg_co2_wo_empty_bus"]
                  /\ sel.travel_time = row["alternative_travel_time_seconds"]
                  /\ sel.transport_type = row["alternative_transport_type"]
             /\ ~sel.alt_sel =>
                  /\ sel.emissions = row["emissions_kg_co2"]
                  /\ sel.emissions_wo_empty_bus = row["emissions_kg_co2_wo_empty_bus"]
                  /\ sel.travel_time = row["travel_time_seconds"]
                  /\ sel.transport_type = row["transport_type"]
  /\ (prog \in {"root", "scripts"} /\ pc = "done") =>
       \A n \in 1..Len(final_df), threshold \in Thresholds :
         select_option(final_df[n], threshold).exc = "none"

\* C10.  Primed invariant: the output of build_scenarios is made of pairs,
\* a scenario row R followed by its primed sibling, whose scenario name is
\* R's followed by an apostrophe, whose visiting team, hosting team,
\* transport type, emissions from transport, travel time and
\* alternative_selected are R's, and whose empty-bus emissions are 0; every
\* row is the first or the second of such a pair.
C10_PrimedInvariant ==
  prog = "scenarios" =>
    /\ Len(entries) % 2 = 0
    /\ \A k \in 1..(Len(entries) \div 2) :
         LET R == entries[2 * k - 1]
             P == entries[2 * k]
         IN  /\ P.scenario = R.scenario \o "'"
             /\ P.visiting_team = R.visiting_team
             /\ P.hosting_team = R.hosting_team
             /\ P.transport_type = R.transport_type
             /\ P.emissions_kg_co2_from_transport = R.emissions_kg_co2_from_transport
             /\ P.travel_time_seconds = R.travel_time_seconds
             /\ P.alternative_selected = R.alternative_selected
             /\ P.emissions_kg_co2_from_empty_bus = 0

\* C10 happens: two thresholds, one selecting the alternative and one the
\* baseline, of a row whose empty bus emits something.
C10_Witness ==
  /\ prog = "scenarios" /\ pc = "done"
  /\ Len(entries) = 4
  /\ entries[1].emissions_kg_co2_from_empty_bus > 0
  /\ entries[1].emissions_kg_co2_from_transport > 0
  /\ entries[1].alternative_selected # entries[3].alternative_selected
  /\ entries[2].scenario = entries[1].scenario \o "'"

\* the scenario rows of the output that are not prime variants
BaseEntries == {entries[2 * k - 1] : k \in 1..(Len(entries) \div 2)}

\* the family of columns a scenario row was selected from
Family(R) == IF R.alternative_selected THEN "alternative_" ELSE ""

\* scenario row R was generated from row n of the frame under the j-th threshold
GeneratedFrom(R, n, j) ==
  /\ R.scenario = scenario_time_limits[j].scenario
  /\ R.visiting_team = df[n]["visiting_team"]
  /\ R.hosting_team = df[n]["hosting_team"]
  /\ R.alternative_selected = (df[n]["alternative_travel_time_seconds"] < Threshold(j))
  /\ R.transport_type = df[n][Family(R) \o "transport_type"]
  /\ R.travel_time_seconds = df[n][Family(R) \o "travel_time_seconds"]
  /\ R.emissions_kg_co2_from_transport = df[n][Family(R) \o "emissions_kg_co2_wo_empty_bus"]

KeptRows == 0..(Len(entries) \div (2 * Len(scenario_time_limits)) - 1)

\* the scenario row of the r-th kept row under the j-th threshold
EntryOf(r, j) == entries[2 * (r * Len(scenario_time_limits) + j - 1) + 1]

\* how many kept rows selected the alternative under the j-th threshold
Selecting(j) == Cardinality({r \in KeptRows : EntryOf(r, j).alternative_selected})

\* C12.  Threshold monotonicity: for two thresholds t1 < t2 every row of the
\* frame that selects the alternative under t1 selects it under t2, and so
\* in the output of build_scenarios the rows with alternative_selected
\* under the larger threshold are at least as many as under the smaller.
C12_ThresholdMonotonicity ==
  prog = "scenarios" =>
    /\ \A n \in 1..Len(df), t1 \in Thresholds, t2 \in Thresholds :
         (t1 < t2 /\ select_option(df[n], t1).alt_sel) => select_option(df[n], t2).alt_sel
    /\ pc = "done" =>
         \A j1 \in 1..Len(scenario_time_limits), j2 \in 1..Len(scenario_time_limits) :
           Threshold(j1) < Threshold(j2) =>
             /\ \A r \in KeptRows :
                  EntryOf(r, j1).alternative_selected => EntryOf(r, j2).alternative_selected
             /\ Selecting(j1) <= Selecting(j2)

\* C12 happens: a row selects the alternative under the larger threshold
\* and not under the smaller.
C12_Witness ==
  /\ prog = "scenarios" /\ pc = "done"
  /\ Len(scenario_time_limits) = 2 /\ Len(entries) = 4
  /\ Threshold(1) < Threshold(2)
  /\ Selecting(1) = 0 /\ Selecting(2) = 1
  /\ df[1]["alternative_travel_time_seconds"] = Threshold(1)

\* the output has two rows per kept row of the frame and named threshold
OutputRowCount ==
  Len(entries) =
    2 * Cardinality({n \in 1..Len(df) : df[n]["visiting_team"] # df[n]["hosting_team"]})
      * Len(scenario_time_limits)

\* no two rows of the output have the same teams and scenario name
OutputKeysUnique ==
  \A a \in 1..Len(entries), b \in 1..Len(entries) :
    a # b =>
      <<entries[a].visiting_team, entries[a].hosting_team, entries[a].scenario>>
        # <<entries[b].visiting_team, entries[b].hosting_team, entries[b].scenario>>

\* C13.  Scenario output shape: build_scenarios returns exactly
\* 2 x (rows with visiting # hosting) x (named thresholds) rows, and no two
\* of them share (visiting team, hosting team, scenario name), also when a
\* threshold name is another name followed by an apostrophe.
C13_OutputShape ==
  (prog = "scenarios" /\ pc = "done") => OutputRowCount /\ OutputKeysUnique

\* the threshold set holds a threshold that is not a duration
Malformed == \E j \in 1..Len(scenario_time_limits) : Threshold(j) < 0

\* C14.  A malformed threshold set (here: a negative threshold) is rejected
\* by build_scenarios eagerly: it raises before any scenario row is
\* generated and returns no list.
C14_MalformedRejectedEagerly ==
  (prog = "scenarios" /\ Malformed) =>
    /\ entries = <<>>
    /\ pc \in {"build", "raised"}

---------------------------------------------------------------------------
(* Properties of the transport services *)

\* a direct call of _trip_stats has ended
TripStatsDone == prog = "trip_stats" /\ pc = "returned"

\* the sections the call was given
GivenSections == week_trains[1].sections

\* the ends and the kind of each row of the details, in order
RECURSIVE Segments(_)
Segments(details) ==
  IF details = <<>>
  THEN <<>>
  ELSE <<<<Head(details).type, Head(details).from, Head(details).to>>>>
         \o Segments(Tail(details))

\* the kept sections with every maximal run of RER / Transilien sections
\* replaced by one car segment from the start of the run to its end; run is
\* the start of the run being read, <<>> outside a run
RECURSIVE MergedRuns(_, _)
MergedRuns(kept, run) ==
  IF kept = <<>>
  THEN <<>>
  ELSE LET sec == Head(kept)
           start == IF run = <<>> THEN sec.from ELSE run[1]
       IN  IF sec.physical_mode = RER
           THEN IF Len(kept) > 1 /\ kept[2].physical_mode = RER
                THEN MergedRuns(Tail(kept), <<start>>)
                ELSE <<<<"car", start, sec.to>>>> \o MergedRuns(Tail(kept), <<>>)
           ELSE (IF sec.length > 0 THEN <<<<sec.type, sec.from, sec.to>>>> ELSE <<>>)
                  \o MergedRuns(Tail(kept), <<>>)

\* C15: Journey Aggregator merge.  For every sequence of sections,
\* _trip_stats returns, and its detail rows are the kept sections in order,
\* each maximal run of consecutive RER / Transilien sections replaced by
\* exactly one car segment from the start of the run's first section to the
\* end of its last one; RER(A-B), RER(B-C), TGV(C-D) gives the two rows car
\* A-C and TGV C-D.
C15_MergeRuns ==
  TripStatsDone =>
    /\ stats.exc = "none"
    /\ Segments(stats.value[1].details) = MergedRuns(corrected_sections(GivenSections), <<>>)

\* sums over a sequence of sections or of detail rows
RECURSIVE SumSeq(_)
SumSeq(numbers) ==
  IF numbers = <<>> THEN 0 ELSE Head(numbers) + SumSeq(Tail(numbers))

KeptNonRER(sec) == Kept(sec) /\ sec.physical_mode # RER
Waits(sec) == sec.type \in {"boarding", "transfer", "waiting"}
CarRow(detail) == detail.type = "car"

\* C16: Journey Aggregator accounting.  For every sequence of sections,
\* _trip_stats returns totals where the duration is the durations of the
\* kept sections that are not RER, plus those of the car replacements, plus
\* those of the boarding, transfer and waiting sections; distance and
\* emissions count the kept non-RER sections and the car replacements only;
\* no boarding, transfer, waiting or crow_fly section is a detail row.
C16_Accounting ==
  TripStatsDone =>
    /\ stats.exc = "none"
    /\ LET out == stats.value[1]
           given == GivenSections
           OfKept(Amount(_)) ==
             SumSeq([k \in 1..Len(given) |->
                       IF KeptNonRER(given[k]) THEN Amount(given[k]) ELSE 0])
           OfCars(Amount(_)) ==
             SumSeq([k \in 1..Len(out.details) |->
                       IF CarRow(out.details[k]) THEN Amount(out.details[k]) ELSE 0])
           OfWaits ==
             SumSeq([k \in 1..Len(given) |->
                       IF Waits(given[k]) THEN given[k].duration ELSE 0])
           Duration(x) == x.duration
           Length(x) == x.length \div 1000
           Emitted(x) == x.co2_emission \div 1000
           Time(d) == d.time_s
           Distance(d) == d.distance_km
           Carbon(d) == d.co2_kg
       IN  /\ out.duration_s = OfKept(Duration) + OfCars(Time) + OfWaits
           /\ out.distance_km = OfKept(Length) + OfCars(Distance)
           /\ out.carbon_emission_kgCO2 = OfKept(Emitted) + OfCars(Carbon)
           /\ \A k \in 1..Len(out.details) :
                out.details[k].type \notin {"boarding", "transfer", "waiting", "crow_fly"}

\* a call of the train service's calculate_route that found journeys has ended
TrainDone == prog = "train" /\ pc \in {"returned", "raised"} /\ week_trains # <<>>

\* the duration of journey k in the cheap variant, as the comparison saw it
CheapDuration(k) == routing[k].outcome.value[1].duration_s

\* C17: fastest candidate and order of the aggregations.  During a call of
\* the train service's calculate_route no aggregation with live routing runs
\* before every journey has had its cheap one; when the call ends, every
\* journey has had exactly one cheap aggregation, in order, followed by
\* exactly one aggregation with live routing, on the chosen journey, whose
\* cheap duration is at most that of every other journey.
C17_FastestCandidate ==
  /\ prog = "train" =>
       \A k \in 1..Len(routing) :
         /\ routing[k].compute_using_google <=> k = Len(week_trains) + 1
         /\ ~routing[k].compute_using_google => routing[k].candidate = k
  /\ TrainDone =>
       /\ Len(routing) = Len(week_trains) + 1
       /\ fastest_train \in 1..Len(week_trains)
       /\ routing[Len(routing)].candidate = fastest_train
       /\ \A k \in 1..Len(week_trains) : CheapDuration(fastest_train) <= CheapDuration(k)

\* the road lookup of the call gave a distance and a duration
LookupSucceeded ==
  response.error = "none" /\ response.status = "OK" /\ response.routes # <<>>

\* C18.  Car emissions: whenever the road lookup returns a distance and a
\* duration, the record of the Car calculator has emissions =
\* emission factor per km x distance_km x passengers x 2, the round-trip
\* factor applied once; 100 km at 0.0744 with 70 passengers give 1041.6 kg,
\* twice the one-way 520.8 kg (10416000 and 5208000 in 1e-4 kg).
C18_CarEmissions ==
  (prog = "car" /\ pc = "returned" /\ LookupSucceeded) =>
    LET distance_km == response.routes[1].distance_value \div 1000
    IN  /\ route.exc = "none" /\ route.value # None
        /\ route.value[1].distance = distance_km
        /\ route.value[1].travel_time = response.routes[1].duration_value
        /\ route.value[1].emissions = 744 * distance_km * 70 * 2
        /\ distance_km = 100 =>
             /\ route.value[1].emissions = 10416000
             /\ route.value[1].emissions = 2 * 5208000

\* C18 happens: a road of 100 km.
C18_Witness ==
  /\ prog = "car" /\ pc = "returned" /\ LookupSucceeded
  /\ response.routes[1].distance_value = 100000
  /\ route.value[1].emissions = 10416000

StatedFlightTime(distance_km) ==
  LET time_in_hours == 285400 + 1200 * distance_km
      hours == time_in_hours \div 1000000
      minutes == ((time_in_hours - hours * 1000000) * 60) \div 1000000
  IN  hours * 3600 + minutes * 60

\* C20.  Plane flight time: calculate_flight_time is linear in the distance
\* with the two fixed coefficients and returns the whole hours x 3600 plus
\* the whole minutes of the fractional hour x 60; 500 km give 3180 seconds.
C20_FlightTime ==
  (prog = "plane" /\ pc = "returned") =>
    /\ route.value = StatedFlightTime(flight_distance)
    /\ flight_distance = 500 => route.value = 3180

\* a call of the plane service's calculate_route has returned a record
PlaneRecord == prog = "plane_route" /\ pc = "returned" /\ route.value # None

\* what the road lookup of a transfer found: kilometres and seconds, nothing
\* when the request failed or the answer holds no route
TransferFound(resp) == resp.error = "none" /\ resp.status = "OK" /\ resp.routes # <<>>
TransferKm(resp) == IF TransferFound(resp) THEN resp.routes[1].distance_value \div 1000 ELSE 0
TransferSeconds(resp) == IF TransferFound(resp) THEN resp.routes[1].duration_value ELSE 0

\* C21.  Plane round-trip total: the emissions of the record are twice the
\* sum of 3.15 times the fuel of the flight distance and of
\* 0.0744 * 70 per kilometre of the two transfers, the car round trip not
\* applied; distance and time are those of the flight plus both transfers;
\* a transfer whose lookup fails adds nothing and is noted in the details.
C21_PlaneRoundTrip ==
  PlaneRecord =>
    LET record == route.value[1]
        details == record.route_details[1]
        km == TransferKm(call.road_dep) + TransferKm(call.road_arr)
        per_km == (AUTO_CAR_EMISSION_FACTOR * NUMBER_OF_PASSENGERS * 100) \div EmissionGrain
        fuel == fuel_consumption_coef * details.flight_distance + fuel_consumption_intercept
    IN  /\ record.emissions = 2 * ((jet_fuel_to_co2 \div EmissionGrain) * fuel + per_km * km)
        /\ record.distance = details.flight_distance + km
        /\ record.travel_time
             = calculate_flight_time(details.flight_distance)
                 + TransferSeconds(call.road_dep) + TransferSeconds(call.road_arr)
        /\ ~TransferFound(call.road_dep) =>
             details.added_details
               \in {"No autocar departure route found",
                    "No autocar departure route foundNo autocar arrival route found"}
        /\ ~TransferFound(call.road_arr) =>
             details.added_details
               \in {"No autocar arrival route found",
                    "No autocar departure route foundNo autocar arrival route found"}

\* a record of a flight between two airports with one transfer found and
\* the other lookup failed
C21_Witness ==
  /\ PlaneRecord
  /\ route.value[1].route_details[1].flight_distance > 0
  /\ TransferFound(call.road_dep) /\ TransferKm(call.road_dep) > 0
  /\ ~TransferFound(call.road_arr)
  /\ route.value[1].distance = route.value[1].route_details[1].flight_distance + 25

\* what the two car legs between stadium and station may emit, each a
\* result of the car service
CarPartEmissions ==
  {car_emissions(l1.distance_value \div 1000) + car_emissions(l2.distance_value \div 1000) :
     l1 \in Legs, l2 \in Legs}

\* C22.  Train emissions composition: a call of the train service's
\* calculate_route that found journeys returns a record whose emissions are
\* the aggregated rail emissions of the chosen journey times the number of
\* passengers times 2, plus the emissions of the two car legs as the car
\* service gives them.
C22_TrainEmissions ==
  TrainDone =>
    /\ route.exc = "none"
    /\ route.value # None
    /\ \E car \in CarPartEmissions :
         route.value[1].emissions
           = stats.value[1].carbon_emission_kgCO2 * 10000 * NUMBER_OF_PASSENGERS * 2 + car

\* C23.  Trip convention: the travel time and the distance of the record
\* every calculator returns are those of one way.  The car record holds the
\* duration and the kilometres of the one road leg looked up, the plane
\* record those of one flight and its two transfers, and the train service
\* returns a record whose time is the duration of the chosen journey plus
\* the car part, not twice that duration.
C23_OneWayConvention ==
  /\ (prog = "car" /\ pc = "returned" /\ TransferFound(response)) =>
       /\ route.value[1].travel_time = response.routes[1].duration_value
       /\ route.value[1].distance = response.routes[1].distance_value \div 1000
  /\ PlaneRecord =>
       /\ route.value[1].distance
            = route.value[1].route_details[1].flight_distance
                + TransferKm(call.road_dep) + TransferKm(call.road_arr)
       /\ route.value[1].travel_time
            = route.value[1].route_details[1].flight_time
                + TransferSeconds(call.road_dep) + TransferSeconds(call.road_arr)
  /\ TrainDone =>
       /\ route.exc = "none"
       /\ route.value # None
       /\ route.value[1].travel_time >= stats.value[1].duration_s
       /\ route.value[1].travel_time < 2 * stats.value[1].duration_s

\* process_all_routes has ended
ProcessDone ==
  prog \in {"car_routes", "plane_routes", "train_routes"} /\ pc \in {"returned", "raised"}

\* the records of the result for the two teams, in either direction
RecordsOf(a, b) ==
  {k \in 1..Len(all_routes) :
     \/ all_routes[k].departure = a /\ all_routes[k].arrival = b
     \/ all_routes[k].departure = b /\ all_routes[k].arrival = a}

\* C24.  Batch resilience: for every service, process_all_routes returns,
\* and its result holds exactly one record for every unordered pair of
\* distinct teams of the stadium file and none from a team to itself,
\* whatever the lookups of the pairs met.
C24_BatchResilience ==
  ProcessDone =>
    /\ pc = "returned"
    /\ \A i \in 1..Len(stadium_df), j \in 1..Len(stadium_df) :
         Cardinality(RecordsOf(stadium_df[i], stadium_df[j])) = IF i = j THEN 0 ELSE 1

\* C25.  The airport cache is write-once: no step changes or removes the
\* value of a key the cache holds; a call of get_nearest_airport whose
\* rounded coordinates are in the cache returns the stored value and sends
\* no request; a key is added only by a call that sent a request and got a
\* real airport, and it is the key of that call.
C25_CacheWriteOnce ==
  [][/\ \A key \in DOMAIN airport_cache :
          key \in DOMAIN airport_cache' /\ airport_cache'[key] = airport_cache[key]
     /\ prog = "airport" =>
          LET cache_key == get_cache_key(call'.lat, call'.lon)
          IN  /\ cache_key \in DOMAIN airport_cache =>
                   /\ requested' = requested
                   /\ route'.value = airport_cache[cache_key]
              /\ DOMAIN airport_cache' # DOMAIN airport_cache =>
                   /\ DOMAIN airport_cache' = DOMAIN airport_cache \cup {cache_key}
                   /\ Len(requested') = Len(requested) + 1
                   /\ "error" \notin DOMAIN route'.value
                   /\ is_real_airport(route'.value.name)
                   /\ airport_cache'[cache_key] = route'.value]_vars

\* a second call, for a point that differs from the first one in the 7th
\* decimal, was answered from the cache: one request only was sent, and a
\* third call that found no airport left the cache as it was
C25_Witness ==
  /\ prog = "airport"
  /\ CallCount = 3
  /\ Len(requested) = 2
  /\ requested[1].location = Coords(488414000, Meridian)
  /\ requested[2].location = Coords(432698000, Meridian)
  /\ "error" \in DOMAIN route.value
  /\ DOMAIN airport_cache = {get_cache_key(488414004, Meridian)}

\* the positions in the log of the requests sent for a day
RequestsOf(day) == {k \in 1..Len(requested) : requested[k].day = day}

\* the waits before the retries of a day, in order
WaitsOf(day) == SelectSeq(sncf.slept, LAMBDA w : w.day = day)

\* the journeys the answers carried, in the order of the requests
RECURSIVE JourneysAnswered(_)
JourneysAnswered(log) ==
  IF log = <<>> THEN <<>> ELSE Head(log).answer.journeys \o JourneysAnswered(Tail(log))

\* C26, at every moment of a call of _get_sncf_journeys: a day has had at
\* most max_retries + 1 requests; the k-th wait of a day lasted 2^k seconds
\* and there is one wait per failed request that was retried; no request
\* follows a success on the same day; the journeys kept are those of all
\* the answers received, failed days apart; and when the call has returned,
\* each of the n_days days has been queried and no other.
C26_RetryBounds ==
  /\ \A day \in 0..(sncf.n_days - 1) :
       /\ Cardinality(RequestsOf(day)) <= sncf.max_retries + 1
       /\ \A k \in 1..Len(WaitsOf(day)) : WaitsOf(day)[k].wait_time = 2 ^ k
       /\ Len(WaitsOf(day)) <= sncf.max_retries
       /\ \A k \in RequestsOf(day), m \in RequestsOf(day) :
            (requested[k].answer.error = "none" /\ k # m) => m < k
       /\ day < sncf.day =>
            \/ \E k \in RequestsOf(day) : requested[k].answer.error = "none"
            \/ Cardinality(RequestsOf(day)) = sncf.max_retries + 1
  /\ sncf.week_trains = JourneysAnswered(requested)
  /\ \A k \in 1..Len(requested) : requested[k].day \in 0..(sncf.n_days - 1)
  /\ pc = "returned" =>
       /\ sncf.day = sncf.n_days
       /\ week_trains = sncf.week_trains
       /\ \A day \in 0..(sncf.n_days - 1) : RequestsOf(day) # {}

\* C26.  Bounded retry: the bounds above hold throughout every call of
\* _get_sncf_journeys, and every call returns.
C26_BoundedRetry == [](prog = "sncf" => C26_RetryBounds) /\ <>(pc = "returned")

\* a call with the default of 3 retries has returned: the first day failed
\* four times, with waits of 2, 4 and 8 seconds, and the second day gave a
\* journey, which was kept
C26_Witness ==
  /\ prog = "sncf" /\ pc = "returned"
  /\ sncf.max_retries = 3 /\ sncf.n_days = 2
  /\ Cardinality(RequestsOf(0)) = 4
  /\ <<WaitsOf(0)[1].wait_time, WaitsOf(0)[2].wait_time, WaitsOf(0)[3].wait_time>> = <<2, 4, 8>>
  /\ Cardinality(RequestsOf(1)) = 1
  /\ week_trains = <<[departure_day |-> 1]>>


---------------------------------------------------------------------------
(* Properties of the leg rows of main (Calculate_emissions.py) *)

\* the leg rows (aller, retour) of travel row n
LegsOf(n) == {2 * n - 1, 2 * n}

\* the mode a leg row travels by: the written token as main resolves it
LegMode(k) == Lower(root.list_transport[k])

\* what the claim states for leg row k of travel row n: half of the record
\* of the leg's mode, and half of the empty bus when the mode is not the bus
\* and the teams differ
StatedLegEmissions(n, k) ==
  Half(Record(n, LegMode(k)).emission_in_kg
         + (IF LegMode(k) # "bus" /\ Visiting(n) # Hosting(n)
            THEN Record(n, "bus").emission_in_kg ELSE 0))

\* C27.  Round-trip halving: every processed travel row has two leg rows,
\* aller then retour, with one Id; each leg row holds half of the time and
\* of the distance of the record of its mode, and half of that record's
\* emissions, plus half of the bus emissions when its mode is not the bus
\* and visiting # hosting, and nothing more when its mode is the bus.
C27_RoundTripHalving ==
  prog = "root" =>
    /\ Len(root.list_id) = 2 * Cardinality(RootBaselineDone)
    /\ \A n \in RootBaselineDone :
         /\ root.list_id[2 * n - 1] = root.list_id[2 * n]
         /\ root.list_aller_retour[2 * n - 1] = "aller"
         /\ root.list_aller_retour[2 * n] = "retour"
         /\ \A k \in LegsOf(n) :
              /\ root.list_time[k] = Half(Record(n, LegMode(k)).time_in_sec)
              /\ root.list_distance[k] = Half(Record(n, LegMode(k)).distance_km)
              /\ root.list_emissions[k] = StatedLegEmissions(n, k)


\* the kept sections of the journey, none of them RER / Transilien
NoRERKept == \A k \in 1..Len(GivenSections) : Kept(GivenSections[k]) => KeptNonRER(GivenSections[k])

\* the kept sections that have a distance, in the order of the journey
WithDistance(sec) == Kept(sec) /\ sec.length > 0

\* the detail row that carries a section's own values
OwnDetail(sec) ==
  Detail(sec.from, sec.to, sec.type, sec.length \div 1000, sec.co2_emission \div 1000,
         sec.duration)

\* C28.  Zero-distance legs: when _trip_stats has run on a journey whose
\* kept sections are not RER, the details hold exactly one row for every
\* kept section with a distance > 0, in order, carrying its own distance,
\* emissions and duration, and no row for a kept section whose distance is
\* 0, while the totals count the duration and the emissions of every kept
\* section, those without distance included.
C28_ZeroDistanceLegs ==
  (TripStatsDone /\ NoRERKept) =>
    /\ stats.exc = "none"
    /\ LET out == stats.value[1]
           given == GivenSections
           rows == SelectSeq(given, WithDistance)
           kept == corrected_sections(given)
       IN  /\ out.details = [k \in 1..Len(rows) |-> OwnDetail(rows[k])]
           /\ out.duration_s =
                SumSeq([k \in 1..Len(kept) |-> kept[k].duration]) + waiting_time(given)
           /\ out.carbon_emission_kgCO2 =
                SumSeq([k \in 1..Len(kept) |-> kept[k].co2_emission \div 1000])
           /\ out.distance_km = SumSeq([k \in 1..Len(rows) |-> rows[k].length \div 1000])

\* a journey with a leg of distance 0 between two legs that have one
C28_Witness ==
  /\ TripStatsDone /\ NoRERKept /\ stats.exc = "none"
  /\ \E k \in 1..Len(GivenSections) :
       /\ Kept(GivenSections[k]) /\ GivenSections[k].length = 0
       /\ GivenSections[k].duration > 0
  /\ Len(stats.value[1].details) = 2
  /\ Len(corrected_sections(GivenSections)) = 3


---------------------------------------------------------------------------
(* Properties of the columns of main (Calculate_emissions.py) *)

\* both loops of main have run over every travel row
MainProcessed == prog = "root" /\ pc \in {"frame", "done"}

\* the lists main fills when the matrix holds travel row n alone
RowAlone(n) ==
  RootAlternativeRow(RootBaselineRow(RootLocals0, reconstructed_data[n]).locals,
                     reconstructed_data[n]).locals

\* C29.  Column alignment: when main has processed its travel rows, every
\* list a column is filled from holds exactly two entries per travel row,
\* and the two entries at the place of the k-th travel row are those of
\* that row: its Id k, and in every other list what the row gives by
\* itself; the frame is then built with two records per travel row.
C29_ColumnAlignment ==
  /\ prog = "root" => exc # "ValueError"
  /\ MainProcessed =>
       \A c \in 1..Len(RootColumns) :
         LET list == root[RootColumns[c][2]]
         IN  /\ Len(list) = 2 * Len(reconstructed_data)
             /\ \A n \in 1..Len(reconstructed_data) :
                  SubSeq(list, 2 * n - 1, 2 * n) =
                    IF RootColumns[c][1] = "Id" THEN <<n, n>>
                    ELSE RowAlone(n)[RootColumns[c][2]]
  /\ (prog = "root" /\ pc = "done") =>
       /\ Len(final_df) = 2 * Len(reconstructed_data)
       /\ \A n \in 1..Len(reconstructed_data) : \A k \in LegsOf(n) :
            /\ final_df[k]["Visiting team"] = Visiting(n)
            /\ final_df[k]["Hosting team"] = Hosting(n)

\* a frame built from a self-pair followed by a mixed trip
C29_Witness ==
  /\ prog = "root" /\ pc = "done"
  /\ Len(reconstructed_data) = 2
  /\ Visiting(1) = Hosting(1)
  /\ Transport(2) \in MixedTrips
  /\ Len(final_df) = 4
  /\ final_df[3]["alternative_travel_time_seconds_scenario<3"]
       # final_df[3]["alternative_travel_time_seconds_scenario<6"]


---------------------------------------------------------------------------
(* Properties of the thresholded variants of main (Calculate_emissions.py) *)

\* the two leg rows of travel row n hold, in the lists of a thresholded
\* variant, the values of the lists of the variant without threshold
SameAsNoPlane(variant, n) ==
  \A k \in LegsOf(n) :
    \A field \in {"_emissions", "_emissions_wo_bus", "_time", "_distance"} :
      root["list_" \o variant \o field][k] = root["list_alternative" \o field][k]

\* the test of the variant with a threshold of th hours, on travel row n
Under(th, n) == Ground(n).time - 2 * th * 3600 < Record(n, "avion").time_in_sec

\* C30.  Nesting of the thresholded variants: for visiting # hosting, a
\* 3-hour variant that reports the ground alternative comes with a 6-hour
\* variant that reports it too; the 6-hour variant reports the ground
\* alternative when alternative duration - 2 * 6 * 3600 < plane duration
\* and the plane option otherwise, whatever the 3-hour test gave; and a
\* variant that reports the ground alternative holds the values of the
\* variant without threshold.
C30_Nesting ==
  prog = "root" =>
    \A n \in RootAlternativeDone :
      Visiting(n) # Hosting(n) =>
        /\ Under(time_scenario2, n) => Under(time_scenario3, n)
        /\ SameAsNoPlane("alternative2", n) => SameAsNoPlane("alternative3", n)
        /\ \A u \in BOOLEAN :
             Under(time_scenario2, n) = u =>
               IF Under(time_scenario3, n)
               THEN Reports("alternative3", n, Ground(n))
               ELSE Reports("alternative3", n, Plane(n))
        /\ \A th \in {time_scenario2, time_scenario3} :
             Under(th, n) => SameAsNoPlane(VariantOf(th), n)

\* a bus faster than the train, over the 3-hour threshold and under the
\* 6-hour one: the 3-hour variant reports the plane, the 6-hour variant the
\* bus as the variant without threshold does
C30_Witness ==
  /\ prog = "root" /\ pc = "done"
  /\ Visiting(1) # Hosting(1)
  /\ Record(1, "bus").time_in_sec < Record(1, "train").time_in_sec
  /\ ~Under(time_scenario2, 1) /\ Under(time_scenario3, 1)
  /\ SameAsNoPlane("alternative3", 1) /\ ~SameAsNoPlane("alternative2", 1)

===========================================================================
